---- MODULE Spec2Model ----
(***************************************************************************)
(* Model of the glas syntax crate: the event-emitting recursive-descent    *)
(* parser (crates/syntax/src/parser.rs), its Pratt expression engine and   *)
(* the tree builder that replays the event log over the raw tokens.        *)
(*                                                                         *)
(* A token is represented by its SyntaxKind (a string).  A raw token's     *)
(* text is identified with its index in tokens_raw, the lexer being taken  *)
(* to produce gapless ranges.  Event::Open{kind} is the kind string,       *)
(* Event::Close is "Close" and Event::Advance is "Advance".                *)
(*                                                                         *)
(* src_len is src.len(), a usize, held as two 16-bit-wide digits           *)
(* [hi, lo] = hi * 2^16 + lo so that lengths around 2^32 can be written.   *)
(*                                                                         *)
(* The typed layer (crates/syntax/src/ast.rs) works on the tree green: a   *)
(* SyntaxNode is the path of child indices from the root to the node;      *)
(* syntax_node is the SyntaxNode a client holds and returned is what the   *)
(* last cast or accessor returned to it.                                   *)
(***************************************************************************)
EXTENDS Integers, Sequences, FiniteSets, TLC

VARIABLES src_len, tokens_raw, tokens, pos, fuel, errors, events, pc, green, panic,
          syntax_node, returned, builder, marks, file_set, change, db

vars == <<src_len, tokens_raw, tokens, pos, fuel, errors, events, pc, green, panic,
          syntax_node, returned, builder, marks, file_set, change, db>>

(***************************************************************************)
(* Bounds of the model.                                                    *)
(***************************************************************************)
MaxLen == 3

\* The most operands of an operator chain and the most postfix forms on an
\* atom in the inputs of SpecExpr.
MaxOperands == 3

MaxPostfix == 3

\* The most tokens between the `(` of the first function and the second
\* function in the inputs of SpecRecovery.
MaxJunk == 3

\* The most trivia tokens before the function in the inputs of SpecTrivia.
MaxTrivia == 3

\* The deepest nesting of unclosed lists in the inputs of SpecDeep.
MaxDepth == 171

\* The machine of the expression rules runs at most 2^MaxStepsLog steps.
MaxStepsLog == 14

\* The text lengths of SpecLen reach this far below u32::MAX and above 2^32.
MaxSlack == 40

\* The most children of the root of a tree of SpecAst.
MaxChildren == 2

\* The most parameters of the function in the inputs of SpecParams.
MaxParams == 2

\* The most declarations of the module in the inputs of SpecModule.
MaxDecls == 2

\* The most tokens of an input of SpecOps and the most diagnostics its
\* operations record.
MaxOpsLen == 3

MaxErrors == 2

\* The most operators between the identifiers of an input of SpecInfix.
MaxChain == 2

(***************************************************************************)
(* Program constants.                                                      *)
(***************************************************************************)
FUEL == 1024

\* u32::MAX as usize, 2^32 - 1.
U32_MAX == [hi |-> 65535, lo |-> 65535]

\* ------------------------------------------------------------------------
\* SyntaxKind predicates on trivia (crate root, not part of the sources).
\* ------------------------------------------------------------------------
is_whitespace(k) == k = "WHITESPACE"

is_module_doc(k) == k \in {"MODULE_COMMENT", "WHITESPACE"}

is_stmt_doc(k) == k \in {"DOC_COMMENT", "WHITESPACE"}

is_trivia(k) == k \in {"WHITESPACE", "COMMENT", "DOC_COMMENT", "MODULE_COMMENT"}

\* ------------------------------------------------------------------------
\* Token sets (parser.rs:10-60).
\* ------------------------------------------------------------------------
STMT_RECOVERY == {"fn", "type", "import", "const", "pub", "if"}

STMT_EXPR_RECOVERY == {"let", "use", "}", "{"} \cup STMT_RECOVERY

PARAM_LIST_RECOVERY == {"->", "{"} \cup STMT_RECOVERY

GENERIC_PARAM_LIST_RECOVERY == {"{", "="} \cup STMT_RECOVERY

IMPORT_RECOVERY == {"as"} \cup STMT_RECOVERY

PATTERN_RECOVERY == {"->", "=", "}", "{"} \cup STMT_RECOVERY

PATTERN_FIRST ==
  {"IDENT", "U_IDENT", "DISCARD_IDENT", "INTEGER", "FLOAT", "STRING",
   "<<", "[", "#", "-", ".."}

TYPE_FIRST == {"fn", "#", "IDENT", "U_IDENT", "DISCARD_IDENT"}

EXPR_FIRST ==
  {"IDENT", "U_IDENT", "DISCARD_IDENT", "-", "!", "panic", "todo",
   "INTEGER", "FLOAT", "STRING", "#", "<<", "[", "{", "case", "fn", ".."}

\* ------------------------------------------------------------------------
\* Binding powers (parser.rs:1446-1475).  None is <<>>.
\* ------------------------------------------------------------------------
prefix_bp(k) ==
  IF k = "!" THEN <<17>>
  ELSE IF k = "-" THEN <<18>>
  ELSE <<>>

\* infix_bp with the two binding powers of the additive operators exchanged.
infix_bp_additive_right(k) ==
  IF k = "||" THEN <<1, 2>>
  ELSE IF k = "&&" THEN <<3, 4>>
  ELSE IF k \in {"==", "!="} THEN <<5, 6>>
  ELSE IF k \in {"<", "<=", "<.", "<=.", ">", ">=", ">.", ">=."} THEN <<7, 8>>
  ELSE IF k = "<>" THEN <<9, 10>>
  ELSE IF k = "|>" THEN <<11, 12>>
  ELSE IF k \in {"+", "-", "+.", "-."} THEN <<14, 13>>
  ELSE IF k \in {"*", "/", "*.", "/.", "%"} THEN <<15, 16>>
  ELSE <<>>

infix_bp(k) ==
  IF k = "||" THEN <<1, 2>>
  ELSE IF k = "&&" THEN <<3, 4>>
  ELSE IF k \in {"==", "!="} THEN <<5, 6>>
  ELSE IF k \in {"<", "<=", "<.", "<=.", ">", ">=", ">.", ">=."} THEN <<7, 8>>
  ELSE IF k = "<>" THEN <<9, 10>>
  ELSE IF k = "|>" THEN <<11, 12>>
  ELSE IF k \in {"+", "-", "+.", "-."} THEN <<13, 14>>
  ELSE IF k \in {"*", "/", "*.", "/.", "%"} THEN <<15, 16>>
  ELSE <<>>

\* ------------------------------------------------------------------------
\* Parser core (parser.rs:205-292).  A parser state p is a record
\*   pos, fuel, errors, events : the fields of struct Parser,
\*   panic : "none", or the panic that unwound the parse,
\*   ret   : the MarkClosed index last returned by finish_node (0 = None).
\* Sequences are 1-based, so index i of the code is i + 1 here.
\* ------------------------------------------------------------------------
Live(p) == p.panic = "none"

eof(p) == p.pos = Len(tokens) + 1

\* The kind nth(lookahead) returns.
Nth(p, lookahead) ==
  IF p.pos + lookahead <= Len(tokens) THEN tokens[p.pos + lookahead] ELSE "EOF"

\* The effect on fuel of n consecutive calls of nth.
T(p, n) ==
  IF p.panic # "none" THEN p
  ELSE IF p.fuel >= n THEN [p EXCEPT !.fuel = p.fuel - n]
  ELSE [p EXCEPT !.fuel = 0, !.panic = "parser is stuck"]

\* assert!(cond) where cond has already been evaluated.
Check(p, cond) ==
  IF p.panic = "none" /\ ~cond THEN [p EXCEPT !.panic = "assertion failed"] ELSE p

\* assert!(p.at_any(kinds))
assert_at(p, kinds) == Check(T(p, 1), Nth(p, 0) \in kinds)

\* Parser::error that puts the diagnostic in front of the list.
error_prepend(p, kind) ==
  IF p.panic # "none" THEN p
  ELSE [p EXCEPT !.errors = <<[range |-> p.pos, kind |-> kind]>> \o p.errors]

error(p, kind) ==
  IF p.panic # "none" THEN p
  ELSE [p EXCEPT !.errors = Append(p.errors, [range |-> p.pos, kind |-> kind])]

\* The marks the rules hold, kept beside the parser state to observe them:
\* open are the indices of the MarkOpened values not yet finished, closed the
\* indices of the MarkClosed values that no later insertion has moved, and
\* the three flags record what every finish_node and start_node_before so
\* far has found at its mark.  No rule reads them.
NoMarks ==
  [open |-> {}, closed |-> {}, finish_ok |-> TRUE, before_ok |-> TRUE, shift_ok |-> TRUE]

\* events[m] is an Open event.
IsOpenAt(evs, m) == m \in 1..Len(evs) /\ evs[m] \notin {"Close", "Advance"}

\* The MarkOpened start_node returns.
Mark(p) == Len(p.events) + 1

start_node(p) ==
  IF p.panic # "none" THEN p
  ELSE [p EXCEPT !.events = Append(p.events, "ERROR"),
                 !.marks.open = @ \cup {Len(p.events) + 1}]

\* start_node_before that inserts no Open event.
start_node_before_no_insert(p, m) == p

\* start_node_before that inserts the Open after events[m].
start_node_before_after_open(p, m) ==
  IF p.panic # "none" THEN p
  ELSE [p EXCEPT !.events =
          SubSeq(p.events, 1, m) \o <<"ERROR">> \o SubSeq(p.events, m + 1, Len(p.events)),
                 !.marks.before_ok = @ /\ m \in p.marks.closed /\ IsOpenAt(p.events, m),
                 !.marks.shift_ok = @ /\ \A o \in p.marks.open : o < m,
                 !.marks.closed = {c \in @ : c < m},
                 !.marks.open = @ \cup {m}]

start_node_before(p, m) ==
  IF p.panic # "none" THEN p
  ELSE [p EXCEPT !.events =
          SubSeq(p.events, 1, m - 1) \o <<"ERROR">> \o SubSeq(p.events, m, Len(p.events)),
                 !.marks.before_ok = @ /\ m \in p.marks.closed /\ IsOpenAt(p.events, m),
                 !.marks.shift_ok = @ /\ \A o \in p.marks.open : o < m,
                 !.marks.closed = {c \in @ : c < m},
                 !.marks.open = @ \cup {m}]

finish_node(p, m, kind) ==
  IF p.panic # "none" THEN p
  ELSE [p EXCEPT !.events = Append([p.events EXCEPT ![m] = kind], "Close"),
                 !.ret = m,
                 !.marks.finish_ok = @ /\ m \in p.marks.open /\ p.events[m] = "ERROR",
                 !.marks.open = @ \ {m},
                 !.marks.closed = @ \cup {m}]

bump(p) ==
  IF p.panic # "none" THEN p
  ELSE IF eof(p) THEN [p EXCEPT !.panic = "assertion failed"]
  ELSE [p EXCEPT !.fuel = FUEL,
                 !.events = Append(p.events, "Advance"),
                 !.pos = p.pos + 1]

\* bump_with_error that records the diagnostic after the bump.
bump_with_error_after_bump(p, kind) ==
  LET m == Mark(p)
  IN finish_node(error(bump(start_node(p)), kind), m, "ERROR")

bump_with_error(p, kind) ==
  LET m == Mark(p)
  IN finish_node(bump(error(start_node(p), kind)), m, "ERROR")

\* The state after eat(kind); its result is Nth(p, 0) = kind.
eat(p, kind) ==
  IF p.panic # "none" THEN p
  ELSE IF Nth(p, 0) = kind THEN bump(T(p, 1)) ELSE T(p, 1)

\* expect that records no diagnostic.
expect_without_error(p, kind) == eat(p, kind)

expect(p, kind) ==
  IF p.panic # "none" THEN p
  ELSE IF Nth(p, 0) = kind THEN bump(T(p, 1))
  ELSE error(T(p, 1), "ExpectToken " \o kind)

\* ------------------------------------------------------------------------
\* Names (parser.rs:1250-1281).
\* ------------------------------------------------------------------------
name(p) ==
  finish_node(expect(start_node(assert_at(p, {"IDENT"})), "IDENT"), Mark(p), "NAME")

type_name(p) ==
  finish_node(expect(start_node(assert_at(p, {"U_IDENT"})), "U_IDENT"), Mark(p),
              "TYPE_NAME")

type_name_ref(p) ==
  finish_node(
    finish_node(expect(start_node(start_node(assert_at(p, {"U_IDENT"}))), "U_IDENT"),
                Mark(p) + 1, "TYPE_NAME"),
    Mark(p), "TYPE_NAME_REF")

name_ref(p) ==
  IF Nth(p, 0) \in {"IDENT", "U_IDENT"}
  THEN finish_node(bump(start_node(T(p, 1))), Mark(p), "NAME_REF")
  ELSE error(T(p, 1), "ExpectedIdentifier")

\* ------------------------------------------------------------------------
\* Type expressions (parser.rs:1316-1444).
\* ------------------------------------------------------------------------
RECURSIVE type_expr(_)

\* `if !p.at(T![")"]) { p.expect(T![","]) }` with `close` for the closer.
comma_unless(p, close) ==
  IF p.panic # "none" THEN p
  ELSE IF Nth(p, 0) = close THEN T(p, 1) ELSE expect(T(p, 1), ",")

\* The loop shared by tuple_type, fn_type: elements are type_expr.
RECURSIVE type_elems_loop(_, _)
type_elems_loop(p, eof_first) ==
  IF p.panic # "none" THEN p
  ELSE IF eof_first /\ eof(p) THEN p
  ELSE IF Nth(p, 0) = ")" THEN T(p, 1)
  ELSE IF ~eof_first /\ eof(p) THEN T(p, 1)
  ELSE IF Nth(p, 0) \in TYPE_FIRST /\ Nth(p, 1) # "IDENT"
       THEN type_elems_loop(comma_unless(type_expr(T(p, 3)), ")"), eof_first)
  ELSE IF Nth(p, 0) \in TYPE_FIRST THEN T(p, 3)
  ELSE T(p, 2)

tuple_type(p) ==
  finish_node(
    expect(type_elems_loop(expect(expect(start_node(assert_at(p, {"#"})), "#"), "("),
                           TRUE), ")"),
    Mark(p), "TUPLE_TYPE")

fn_type(p) ==
  LET params(q) ==
        IF Nth(q, 0) = "("
        THEN finish_node(type_elems_loop(bump(start_node(T(q, 1))), FALSE),
                         Mark(q), "PARAM_TYPE_LIST")
        ELSE error(T(q, 1), "ExpectToken (")
  IN finish_node(
       type_expr(expect(expect(params(expect(start_node(assert_at(p, {"fn"})), "fn")),
                               ")"), "->")),
       Mark(p), "FN_TYPE")

type_arg(p) ==
  finish_node(comma_unless(type_expr(start_node(p)), ")"), Mark(p), "TYPE_ARG")

RECURSIVE type_arg_loop(_)
type_arg_loop(p) ==
  IF p.panic # "none" THEN p
  ELSE IF Nth(p, 0) = ")" \/ eof(p) THEN T(p, 1)
  ELSE IF Nth(p, 0) \in TYPE_FIRST /\ Nth(p, 1) # "IDENT"
       THEN type_arg_loop(type_arg(T(p, 3)))
  ELSE IF Nth(p, 0) \in TYPE_FIRST THEN T(p, 3)
  ELSE T(p, 2)

type_arg_list(p) ==
  finish_node(expect(type_arg_loop(expect(start_node(assert_at(p, {"("})), "(")), ")"),
              Mark(p), "TYPE_ARG_LIST")

\* The tail of type_expr after a constructor type (type_application = true).
type_application(p) ==
  LET res == p.ret
  IN IF p.panic # "none" THEN p
     ELSE IF Nth(p, 0) = "("
     THEN finish_node(type_arg_list(start_node_before(T(p, 1), res)), res,
                      "TYPE_APPLICATION")
     ELSE T(p, 1)

type_expr(p) ==
  LET k == Nth(p, 0)
      m == Mark(p)
      \* after `p.expect(T!["."])` of a qualified type name
      qualified(q) ==
        IF Nth(q, 0) = "U_IDENT" THEN type_name(T(q, 1))
        ELSE error(T(q, 1), "ExpectedType")
      \* after `p.expect(IDENT)`
      named(q) ==
        IF Nth(q, 0) # "."
        THEN finish_node(start_node_before(finish_node(T(q, 1), m, "TYPE_NAME"), m),
                         m, "TYPE_NAME_REF")
        ELSE type_application(
               finish_node(
                 qualified(expect(start_node_before(finish_node(T(q, 1), m, "NAME"), m),
                                  ".")),
                 m, "TYPE_NAME_REF"))
  IN CASE k = "fn" -> fn_type(T(p, 1))
       [] k = "IDENT" -> named(expect(start_node(T(p, 1)), "IDENT"))
       [] k = "U_IDENT" -> type_application(type_name_ref(T(p, 1)))
       [] k = "DISCARD_IDENT" ->
            finish_node(expect(start_node(T(p, 1)), "DISCARD_IDENT"), m, "HOLE")
       [] k = "#" -> tuple_type(T(p, 1))
       [] OTHER -> error(T(p, 1), "ExpectedType")

\* ------------------------------------------------------------------------
\* Patterns (parser.rs:804-816, 907-1083).
\* ------------------------------------------------------------------------
RECURSIVE pattern(_)

RECURSIVE bit_array_loop(_)
bit_array_loop(p) ==
  LET bumped(q) ==
        IF Nth(q, 0) \in STMT_RECOVERY THEN T(q, 1) ELSE bit_array_loop(T(q, 1))
  IN IF p.panic # "none" THEN p
     ELSE IF Nth(p, 0) = ">>" \/ eof(p) THEN T(p, 1)
     ELSE bumped(bump(T(p, 1)))

bit_array(p) ==
  LET opened(q) ==
        finish_node(expect(bit_array_loop(start_node(q)), ">>"), Mark(q), "BIT_ARRAY")
  IN opened(expect(assert_at(p, {"<<"}), "<<"))

RECURSIVE pattern_list_loop(_)
pattern_list_loop(p) ==
  IF p.panic # "none" THEN p
  ELSE IF Nth(p, 0) = "]" \/ eof(p) THEN T(p, 1)
  ELSE IF Nth(p, 0) \in PATTERN_FIRST
       THEN pattern_list_loop(comma_unless(pattern(T(p, 2)), "]"))
  ELSE IF Nth(p, 0) \in STMT_EXPR_RECOVERY THEN T(p, 3)
  ELSE pattern_list_loop(bump_with_error(T(p, 3), "ExpectedExpression"))

pattern_list(p) ==
  finish_node(expect(pattern_list_loop(expect(start_node(assert_at(p, {"["})), "[")),
                     "]"),
              Mark(p), "PATTERN_LIST")

RECURSIVE pattern_tuple_loop(_)
pattern_tuple_loop(p) ==
  IF p.panic # "none" \/ eof(p) THEN p
  ELSE IF Nth(p, 0) = ")" THEN T(p, 1)
  ELSE IF Nth(p, 0) \in PATTERN_FIRST
       THEN pattern_tuple_loop(comma_unless(pattern(T(p, 2)), ")"))
  ELSE pattern_tuple_loop(bump_with_error(T(p, 3), "ExpectedExpression"))

pattern_tuple(p) ==
  finish_node(
    expect(pattern_tuple_loop(expect(expect(start_node(assert_at(p, {"#"})), "#"), "(")),
           ")"),
    Mark(p), "PATTERN_TUPLE")

\* The label test `p.nth(1) == T![":"] && p.nth(2) != T![".."]` of
\* pattern_constructor_arg and arg: its value and the state after it.
is_labelled(p) == Nth(p, 1) = ":" /\ Nth(p, 2) # ".."

after_is_labelled(p) == IF Nth(p, 1) = ":" THEN T(p, 2) ELSE T(p, 1)

\* The label branch shared by pattern_constructor_arg and arg.
label(p) ==
  LET q == IF Nth(p, 0) = "IDENT"
           THEN finish_node(bump(start_node(T(p, 1))), Mark(p), "LABEL")
           ELSE error(T(p, 1), "ExpectedIdentifier")
  IN expect(q, ":")

pattern_constructor_arg(p) ==
  LET first(q) ==
        IF Nth(q, 0) \in PATTERN_FIRST THEN T(q, 1)
        ELSE error(T(q, 1), "ExpectedExpression")
      labelled(q) ==
        IF is_labelled(q) THEN label(after_is_labelled(q)) ELSE after_is_labelled(q)
  IN finish_node(comma_unless(pattern(labelled(first(start_node(p)))), ")"),
                 Mark(p), "VARIANT_REF_FIELD")

RECURSIVE pattern_constructor_arg_loop(_)
pattern_constructor_arg_loop(p) ==
  IF p.panic # "none" THEN p
  ELSE IF Nth(p, 0) = ")" \/ eof(p) THEN T(p, 1)
  ELSE IF Nth(p, 0) \in PATTERN_FIRST
       THEN pattern_constructor_arg_loop(pattern_constructor_arg(T(p, 2)))
  ELSE IF Nth(p, 0) \in STMT_EXPR_RECOVERY THEN T(p, 3)
  ELSE pattern_constructor_arg_loop(bump_with_error(T(p, 3), "ExpectedExpression"))

pattern_constructor_arg_list(p) ==
  finish_node(
    expect(pattern_constructor_arg_loop(expect(start_node(assert_at(p, {"("})), "(")),
           ")"),
    Mark(p), "VARIANT_REF_FIELD_LIST")

\* `if p.at(T!["("]) { pattern_constructor_arg_list(p) }`
opt_constructor_args(p) ==
  IF p.panic # "none" THEN p
  ELSE IF Nth(p, 0) = "(" THEN pattern_constructor_arg_list(T(p, 1)) ELSE T(p, 1)

\* The `as` binding that may follow a pattern whose closed mark is p.ret.
as_pattern(p) ==
  LET pat == p.ret
      \* after `p.eat(T!["as"])` returned true
      var(q) ==
        finish_node(IF Nth(q, 0) = "IDENT" THEN name(T(start_node(q), 1))
                    ELSE error(T(start_node(q), 1), "ExpectedIdentifier"),
                    Mark(q), "PATTERN_VARIABLE")
  IN IF p.panic # "none" THEN p
     ELSE IF Nth(p, 0) = "as"
     THEN finish_node(start_node_before(var(eat(p, "as")), pat), pat, "AS_PATTERN")
     ELSE eat(p, "as")

pattern(p) ==
  LET k == Nth(p, 0)
      m == Mark(p)
      \* after `p.expect(IDENT)`
      named(q) ==
        IF Nth(q, 0) # "."
        THEN finish_node(start_node_before(finish_node(T(q, 1), m, "NAME"), m),
                         m, "PATTERN_VARIABLE")
        ELSE as_pattern(
               finish_node(
                 opt_constructor_args(
                   name_ref(
                     expect(
                       start_node_before(
                         finish_node(
                           start_node_before(finish_node(T(q, 1), m, "NAME_REF"), m),
                           m, "MODULE_NAME_REF"),
                         m),
                       "."))),
                 m, "VARIANT_REF"))
      \* after `p.expect(T!["<>"])`
      concat(q) == finish_node(pattern(start_node(q)), Mark(q), "PATTERN_VARIABLE")
      \* after `let mut literal = p.finish_node(m, LITERAL)`
      literal(q) ==
        IF k # "STRING" THEN as_pattern(q)
        ELSE IF Nth(q, 0) = "<>"
             THEN as_pattern(
                    finish_node(concat(expect(start_node_before(T(q, 1), m), "<>")),
                                m, "PATTERN_CONCAT"))
        ELSE as_pattern(T(q, 1))
      \* after `p.expect(T![".."])`
      spread(q) == IF Nth(q, 0) = "IDENT" THEN name(T(q, 1)) ELSE T(q, 1)
  IN CASE k = "IDENT" -> named(expect(start_node(T(p, 1)), "IDENT"))
       [] k = "U_IDENT" ->
            as_pattern(
              finish_node(opt_constructor_args(name_ref(start_node(T(p, 1)))),
                          m, "VARIANT_REF"))
       [] k = "DISCARD_IDENT" ->
            as_pattern(finish_node(bump(start_node(T(p, 1))), m, "HOLE"))
       [] k \in {"INTEGER", "FLOAT", "STRING"} ->
            literal(finish_node(bump(start_node(T(p, 1))), m, "LITERAL"))
       [] k = "<<" -> as_pattern(bit_array(T(p, 1)))
       [] k = "[" -> as_pattern(pattern_list(T(p, 1)))
       [] k \in {"-", "!"} ->
            as_pattern(finish_node(pattern(bump(start_node(T(p, 1)))), m, "UNARY_OP"))
       [] k = "#" -> as_pattern(pattern_tuple(T(p, 1)))
       [] k = ".." ->
            as_pattern(
              finish_node(spread(expect(start_node(T(p, 1)), "..")), m,
                          "PATTERN_SPREAD"))
       [] OTHER -> error(T(p, 1), "ExpectedPattern")

\* ------------------------------------------------------------------------
\* Rules below expressions: parameters, use-assignments and clause patterns
\* (parser.rs:516-579, 610-627, 857-869, 888-905).
\* ------------------------------------------------------------------------
\* `if p.eat(T![":"]) { type_expr(p) }`
opt_type_annotation(p) ==
  IF p.panic # "none" THEN p
  ELSE IF Nth(p, 0) = ":" THEN type_expr(eat(p, ":")) ELSE eat(p, ":")

RECURSIVE stmt_use_loop(_)
stmt_use_loop(p) ==
  IF p.panic # "none" THEN p
  ELSE IF Nth(p, 0) = "<-" \/ eof(p) THEN T(p, 1)
  ELSE IF Nth(p, 0) \in PATTERN_FIRST
       THEN stmt_use_loop(
              comma_unless(
                finish_node(opt_type_annotation(pattern(start_node(T(p, 2)))),
                            Mark(p), "USE_ASSIGNMENT"),
                "<-"))
  ELSE IF Nth(p, 0) \in STMT_EXPR_RECOVERY THEN T(p, 3)
  ELSE stmt_use_loop(bump_with_error(T(p, 3), "ExpectedIdentifier"))

param(p, is_anon) ==
  LET \* the name after an optional label
      named(q) ==
        IF Nth(q, 0) = "IDENT"
        THEN finish_node(name(start_node(T(q, 1))), Mark(q), "PATTERN_VARIABLE")
        ELSE IF Nth(q, 0) = "DISCARD_IDENT"
        THEN finish_node(bump(start_node(T(q, 1))), Mark(q), "HOLE")
        ELSE error(T(q, 1), "ExpectedIdentifier")
      \* after `p.nth(1) == IDENT || p.nth(1) == DISCARD_IDENT` gave has_label
      labelled(q, has_label) ==
        IF has_label
        THEN IF is_anon THEN error(q, "UnexpectedLabel")
             ELSE finish_node(bump(start_node(q)), Mark(q), "LABEL")
        ELSE q
      \* `match p.nth(0)` after `let m = p.start_node()`
      binding(q) ==
        IF Nth(q, 0) = "DISCARD_IDENT"
        THEN finish_node(bump(start_node(q)), Mark(q), "HOLE")
        ELSE IF Nth(q, 0) = "IDENT"
        THEN named(labelled(IF Nth(q, 1) = "IDENT" THEN T(q, 1) ELSE T(q, 2),
                            Nth(q, 1) \in {"IDENT", "DISCARD_IDENT"}))
        ELSE error(q, "ExpectedIdentifier")
  IN finish_node(
       comma_unless(
         opt_type_annotation(
           binding(T(start_node(assert_at(p, {"IDENT", "DISCARD_IDENT"})), 1))),
         ")"),
       Mark(p), "PARAM")

RECURSIVE param_list_loop(_, _)
param_list_loop(p, is_anon) ==
  IF p.panic # "none" THEN p
  ELSE IF Nth(p, 0) = ")" \/ eof(p) THEN T(p, 1)
  ELSE IF Nth(p, 0) \in {"IDENT", "DISCARD_IDENT"}
       THEN param_list_loop(param(T(p, 2), is_anon), is_anon)
  ELSE IF Nth(p, 0) \in PARAM_LIST_RECOVERY THEN T(p, 3)
  ELSE param_list_loop(bump_with_error(T(p, 3), "ExpectedParameter"), is_anon)

param_list(p, is_anon) ==
  finish_node(
    expect(param_list_loop(expect(start_node(assert_at(p, {"("})), "("), is_anon), ")"),
    Mark(p), "PARAM_LIST")

RECURSIVE alternative_pattern_loop(_)
alternative_pattern_loop(p) ==
  LET alternative(q) ==
        IF Nth(q, 0) = "|" THEN alternative_pattern_loop(eat(q, "|")) ELSE eat(q, "|")
  IN IF p.panic # "none" THEN p
     ELSE IF Nth(p, 0) = "," \/ eof(p) THEN T(p, 1)
     ELSE IF Nth(p, 0) \in PATTERN_FIRST THEN alternative(pattern(T(p, 2)))
     ELSE IF Nth(p, 0) \in EXPR_FIRST THEN T(p, 3)
     ELSE alternative_pattern_loop(bump_with_error(T(p, 3), "ExpectedExpression"))

alternative_pattern(p) ==
  finish_node(alternative_pattern_loop(start_node(p)), Mark(p), "ALTERNATIVE_PATTERN")

RECURSIVE clause_loop(_)
clause_loop(p) ==
  LET alternative(q) ==
        IF Nth(q, 0) = "," THEN clause_loop(eat(q, ",")) ELSE eat(q, ",")
  IN IF p.panic # "none" \/ eof(p) THEN p
     ELSE IF Nth(p, 0) \in PATTERN_FIRST THEN alternative(alternative_pattern(T(p, 1)))
     ELSE IF Nth(p, 0) \in PATTERN_RECOVERY THEN T(p, 2)
     ELSE clause_loop(bump_with_error(T(p, 2), "ExpectedExpression"))

\* ------------------------------------------------------------------------
\* Top-level statements (parser.rs:332-483, 1147-1248).
\* ------------------------------------------------------------------------
external(p, attr) ==
  LET q == expect(assert_at(p, {"external"}), "external")
      q1 == expect(expect(expect(expect(q, "("), "IDENT"), ","), "STRING")
  IN finish_node(expect(expect(expect(q1, ","), "STRING"), ")"), attr, "EXTERNAL_ATTR")

target(p, attr) ==
  LET q == expect(assert_at(p, {"IDENT"}), "IDENT")
  IN finish_node(expect(expect(expect(q, "("), "IDENT"), ")"), attr, "TARGET_ATTR")

attribute(p) ==
  LET \* `match p.nth(0)` after `p.expect(T!["@"])`
      kind(q, attr) ==
        IF Nth(q, 0) = "external" THEN external(T(q, 1), attr)
        ELSE IF Nth(q, 0) = "IDENT" THEN target(T(q, 1), attr)
        ELSE finish_node(error(T(q, 1), "ExpectedAttribute"), attr, "ERROR")
  IN kind(expect(start_node(assert_at(p, {"@"})), "@"), Mark(p))

RECURSIVE attributes(_)
attributes(p) ==
  IF p.panic # "none" THEN p
  ELSE IF Nth(p, 0) = "@" /\ ~eof(p) THEN attributes(attribute(T(p, 1)))
  ELSE T(p, 1)

variant_field(p) ==
  LET labelled(q) ==
        IF Nth(q, 1) = ":"
        THEN expect(finish_node(expect(start_node(q), "IDENT"), Mark(q), "NAME"), ":")
        ELSE q
  IN finish_node(type_expr(labelled(T(start_node(p), 1))), Mark(p), "VARIANT_FIELD")

RECURSIVE variant_field_loop(_)
variant_field_loop(p) ==
  IF p.panic # "none" THEN p
  ELSE IF Nth(p, 0) = ")" \/ eof(p) THEN T(p, 1)
  ELSE IF Nth(p, 0) \in TYPE_FIRST
       THEN variant_field_loop(comma_unless(variant_field(T(p, 2)), ")"))
  ELSE IF Nth(p, 0) \in STMT_RECOVERY THEN T(p, 3)
  ELSE variant_field_loop(bump_with_error(T(p, 3), "ExpectedType"))

variant(p) ==
  LET \* after the variant's NAME
      fields(q) ==
        IF Nth(q, 0) = "("
        THEN finish_node(
               expect(variant_field_loop(expect(start_node(T(q, 1)), "(")), ")"),
               Mark(q), "VARIANT_FIELD_LIST")
        ELSE T(q, 1)
  IN finish_node(
       fields(finish_node(
                expect(start_node(start_node(assert_at(p, {"U_IDENT"}))), "U_IDENT"),
                Mark(p) + 1, "NAME")),
       Mark(p), "VARIANT")

RECURSIVE generic_param_loop(_)
generic_param_loop(p) ==
  IF p.panic # "none" THEN p
  ELSE IF Nth(p, 0) = ")" \/ eof(p) THEN T(p, 1)
  ELSE IF Nth(p, 0) = "IDENT"
       THEN generic_param_loop(
              comma_unless(
                finish_node(
                  finish_node(expect(start_node(start_node(T(p, 2))), "IDENT"),
                              Mark(p) + 1, "TYPE_NAME"),
                  Mark(p), "TYPE_NAME_REF"),
                ")"))
  ELSE IF Nth(p, 0) \in GENERIC_PARAM_LIST_RECOVERY THEN T(p, 3)
  ELSE generic_param_loop(bump_with_error(T(p, 3), "ExpectedParameter"))

RECURSIVE adt_loop(_)
adt_loop(p) ==
  IF p.panic # "none" THEN p
  ELSE IF Nth(p, 0) = "}" \/ eof(p) THEN T(p, 1)
  ELSE IF Nth(p, 0) = "U_IDENT" THEN adt_loop(variant(T(p, 2)))
  ELSE IF Nth(p, 0) \in STMT_RECOVERY THEN T(p, 3)
  ELSE adt_loop(bump_with_error(T(p, 3), "ExpectedType"))

\* custom_type with the OpaqueAlias diagnostic recorded on a `{` body as well.
custom_type_opaque_error_on_adt(p, m) ==
  LET opaque == Nth(p, 0) = "opaque"
      \* after `p.expect(T!["type"])`
      named(q) ==
        IF Nth(q, 0) = "U_IDENT" THEN type_name(T(q, 1))
        ELSE error(T(q, 1), "ExpectedIdentifier")
      generics(q) ==
        IF Nth(q, 0) = "("
        THEN finish_node(
               expect(generic_param_loop(expect(start_node(T(q, 1)), "(")), ")"),
               Mark(q), "GENERIC_PARAM_LIST")
        ELSE T(q, 1)
      \* after `p.expect(T!["="])`
      alias(q) ==
        IF Nth(q, 0) \in TYPE_FIRST /\ Nth(q, 1) # "IDENT" THEN type_expr(T(q, 2))
        ELSE IF Nth(q, 0) \in TYPE_FIRST THEN T(q, 2)
        ELSE T(q, 1)
      \* `match p.nth(0)` on k
      body(q, k) ==
        IF k = "{"
        THEN finish_node(
               expect(adt_loop(expect(IF opaque THEN error(q, "OpaqueAlias") ELSE q, "{")),
                      "}"),
               m, "ADT")
        ELSE IF k = "="
        THEN finish_node(
               alias(expect(IF opaque THEN error(q, "OpaqueAlias") ELSE q, "=")),
               m, "TYPE_ALIAS")
        ELSE finish_node(q, m, "ADT")
      declared(q) == body(T(q, 1), Nth(q, 0))
  IN declared(
       generics(
         named(expect(IF opaque THEN expect(T(p, 1), "opaque") ELSE T(p, 1), "type"))))

custom_type(p, m) ==
  LET opaque == Nth(p, 0) = "opaque"
      \* after `p.expect(T!["type"])`
      named(q) ==
        IF Nth(q, 0) = "U_IDENT" THEN type_name(T(q, 1))
        ELSE error(T(q, 1), "ExpectedIdentifier")
      generics(q) ==
        IF Nth(q, 0) = "("
        THEN finish_node(
               expect(generic_param_loop(expect(start_node(T(q, 1)), "(")), ")"),
               Mark(q), "GENERIC_PARAM_LIST")
        ELSE T(q, 1)
      \* after `p.expect(T!["="])`
      alias(q) ==
        IF Nth(q, 0) \in TYPE_FIRST /\ Nth(q, 1) # "IDENT" THEN type_expr(T(q, 2))
        ELSE IF Nth(q, 0) \in TYPE_FIRST THEN T(q, 2)
        ELSE T(q, 1)
      \* `match p.nth(0)` on k
      body(q, k) ==
        IF k = "{" THEN finish_node(expect(adt_loop(expect(q, "{")), "}"), m, "ADT")
        ELSE IF k = "="
        THEN finish_node(
               alias(expect(IF opaque THEN error(q, "OpaqueAlias") ELSE q, "=")),
               m, "TYPE_ALIAS")
        ELSE finish_node(q, m, "ADT")
      declared(q) == body(T(q, 1), Nth(q, 0))
  IN declared(
       generics(
         named(expect(IF opaque THEN expect(T(p, 1), "opaque") ELSE T(p, 1), "type"))))

\* as_name with an entry assertion that admits IDENT only.
as_name_ident_only(p) ==
  LET \* after `p.expect(T!["as"])`
      alias(q) ==
        finish_node(IF Nth(q, 0) \in {"U_IDENT", "IDENT"} THEN bump(T(start_node(q), 1))
                    ELSE error(T(start_node(q), 1), "ExpectedIdentifier"),
                    Mark(q), "NAME")
      renamed(q) == IF Nth(q, 0) = "as" THEN alias(expect(T(q, 1), "as")) ELSE T(q, 1)
  IN finish_node(
       comma_unless(
         renamed(finish_node(
                   bump(start_node(start_node(assert_at(p, {"IDENT"})))),
                   Mark(p) + 1, "NAME")),
         "}"),
       Mark(p), "UNQUALIFIED_IMPORT")

as_name(p) ==
  LET \* after `p.expect(T!["as"])`
      alias(q) ==
        finish_node(IF Nth(q, 0) \in {"U_IDENT", "IDENT"} THEN bump(T(start_node(q), 1))
                    ELSE error(T(start_node(q), 1), "ExpectedIdentifier"),
                    Mark(q), "NAME")
      renamed(q) == IF Nth(q, 0) = "as" THEN alias(expect(T(q, 1), "as")) ELSE T(q, 1)
  IN finish_node(
       comma_unless(
         renamed(finish_node(
                   bump(start_node(start_node(assert_at(p, {"U_IDENT", "IDENT"})))),
                   Mark(p) + 1, "NAME")),
         "}"),
       Mark(p), "UNQUALIFIED_IMPORT")

\* `if p.at(U_IDENT) { type_name(p) } else { p.error(ExpectedType) }`
type_name_or_error(p) ==
  IF Nth(p, 0) = "U_IDENT" THEN type_name(T(p, 1))
  ELSE error(T(p, 1), "ExpectedType")

as_type_name(p) ==
  LET renamed(q) ==
        IF Nth(q, 0) = "as" THEN type_name_or_error(expect(T(q, 1), "as"))
        ELSE T(q, 1)
  IN finish_node(
       comma_unless(
         renamed(type_name_or_error(eat(start_node(assert_at(p, {"type"})), "type"))),
         "}"),
       Mark(p), "UNQUALIFIED_IMPORT")

RECURSIVE unqualified_imports_loop(_)
unqualified_imports_loop(p) ==
  IF p.panic # "none" \/ eof(p) THEN p
  ELSE IF Nth(p, 0) = "}" THEN T(p, 1)
  ELSE IF Nth(p, 0) \in {"IDENT", "U_IDENT"}
       THEN unqualified_imports_loop(as_name(T(p, 2)))
  ELSE IF Nth(p, 0) = "type" THEN unqualified_imports_loop(as_type_name(T(p, 2)))
  ELSE IF Nth(p, 0) \in IMPORT_RECOVERY THEN T(p, 2)
  ELSE unqualified_imports_loop(bump_with_error(T(p, 2), "ExpectedParameter"))

unqualified_imports(p) ==
  LET q == expect(eat(assert_at(p, {"."}), "."), "{")
  IN expect(unqualified_imports_loop(q), "}")

\* The module-path loop of import; p.ret = 1 on exit iff parsed_ident.
RECURSIVE module_path_loop(_)
module_path_loop(p) ==
  LET segment(q) ==
        finish_node(IF Nth(q, 0) = "IDENT" THEN eat(start_node(q), "IDENT")
                    ELSE bump_with_error(eat(start_node(q), "IDENT"),
                                         "ExpectedIdentifier"),
                    Mark(q), "PATH")
      \* `if !p.eat(T!["/"]) { break }`
      separator(q) ==
        IF Nth(q, 0) = "/" THEN module_path_loop([bump(T(q, 1)) EXCEPT !.ret = 0])
        ELSE [T(q, 1) EXCEPT !.ret = 1]
  IN IF p.panic # "none" THEN p
     ELSE IF Nth(p, 0) \in STMT_RECOVERY THEN T(p, 1)
     ELSE IF Nth(p, 0) = "." \/ eof(p) THEN T(p, 2)
     ELSE separator(segment(T(p, 2)))

import(p, m) ==
  LET \* after the path loop: q.ret = 1 iff parsed_ident
      path_end(q, path) ==
        IF q.ret = 1 THEN finish_node(q, path, "MODULE_PATH")
        ELSE error(finish_node(q, path, "MODULE_PATH"), "ExpectedIdentifier")
      path(q) == path_end(module_path_loop([start_node(q) EXCEPT !.ret = 0]), Mark(q))
      unqualified(q) ==
        IF Nth(q, 0) = "." THEN unqualified_imports(T(q, 1)) ELSE T(q, 1)
      alias(q) ==
        IF Nth(q, 0) = "as"
        THEN finish_node(expect(start_node(bump(T(q, 1))), "IDENT"), Mark(q) + 1, "NAME")
        ELSE T(q, 1)
  IN finish_node(alias(unqualified(path(expect(assert_at(p, {"import"}), "import")))),
                 m, "IMPORT")

\* ------------------------------------------------------------------------
\* Expressions, blocks, functions and statements (parser.rs:303-330,
\* 485-514, 581-801, 818-886, 1085-1145, 1283-1314).  These rules call one
\* another to the depth of the input's nesting, so their call stack is kept
\* explicit.  A frame of the stack is a record
\*   k : the rule to enter, or the point of a rule to continue at when the
\*       rule it called returns,
\*   m : the mark the rule holds, n : its numeric local (min_bp or a second
\*       mark), s : its kind local, b : is_anon.
\* A machine state is [p, stack]; each operator below takes the parser state
\* p, the stack st under the running frame and the running frame f.
\* ------------------------------------------------------------------------
Frame(k, m, n, s, b) == [k |-> k, m |-> m, n |-> n, s |-> s, b |-> b]

Enter(k) == Frame(k, 0, 0, "", FALSE)

Cont(k, m) == Frame(k, m, 0, "", FALSE)

EnterExpr(min_bp) == Frame("expr_bp", 0, min_bp, "", FALSE)

\* The continuation `p.finish_node(m, kind)` followed by the rule's return.
Finish(m, kind) == Frame("finish_node", m, 0, kind, FALSE)

Return(p, st) == [p |-> p, stack |-> st]

Goto(p, st, fr) == [p |-> p, stack |-> Append(st, fr)]

Call(p, st, cont, callee) == [p |-> p, stack |-> st \o <<cont, callee>>]

finish_node_return(p, st, f) == Return(finish_node(p, f.m, f.s), st)

\* `if p.at_any(EXPR_FIRST) { expr(p) } else { p.error(ExpectedExpression) }`
\* followed by cont.
expr_or_error(p, st, cont) ==
  IF Nth(p, 0) \in EXPR_FIRST THEN Call(T(p, 1), st, cont, EnterExpr(0))
  ELSE Goto(error(T(p, 1), "ExpectedExpression"), st, cont)

stmt_expr(p, st, f) ==
  Call(start_node(p), st, Finish(Mark(p), "STMT_EXPR"), EnterExpr(0))

stmt_let(p, st, f) ==
  LET \* `if p.at(T!["assert"]) { p.expect(T!["assert"]) }`
      asserted(q) ==
        IF Nth(q, 0) = "assert" THEN expect(T(q, 1), "assert") ELSE T(q, 1)
  IN expr_or_error(
       expect(opt_type_annotation(
                pattern(asserted(expect(start_node(assert_at(p, {"let"})), "let")))),
              "="),
       st, Finish(Mark(p), "STMT_LET"))

stmt_use(p, st, f) ==
  expr_or_error(
    expect(stmt_use_loop(expect(start_node(assert_at(p, {"use"})), "use")), "<-"),
    st, Finish(Mark(p), "STMT_USE"))

block(p, st, f) ==
  Goto(expect(start_node(assert_at(p, {"{"})), "{"), st, Cont("block_loop", Mark(p)))

block_loop(p, st, f) ==
  IF Nth(p, 0) = "}" \/ eof(p)
  THEN Return(finish_node(expect(T(p, 1), "}"), f.m, "BLOCK"), st)
  ELSE IF Nth(p, 0) = "let" THEN Call(T(p, 2), st, f, Enter("stmt_let"))
  ELSE IF Nth(p, 0) = "use" THEN Call(T(p, 2), st, f, Enter("stmt_use"))
  ELSE IF Nth(p, 0) \in EXPR_FIRST THEN Call(T(p, 3), st, f, Enter("stmt_expr"))
  ELSE IF Nth(p, 0) \in STMT_EXPR_RECOVERY
  THEN Return(finish_node(expect(T(p, 4), "}"), f.m, "BLOCK"), st)
  ELSE Goto(bump_with_error(T(p, 4), "ExpectedStatement"), st, f)

\* function(p, m, is_anon): m is f.m and is_anon is f.b.
function(p, st, f) ==
  LET kind == IF f.b THEN "LAMBDA" ELSE "FUNCTION"
      \* after `p.expect(T!["fn"])`
      named(q) ==
        IF f.b THEN q
        ELSE IF Nth(q, 0) = "IDENT" THEN name(T(q, 1))
        ELSE error(T(q, 1), "ExpectedIdentifier")
      params(q) ==
        IF Nth(q, 0) = "(" THEN param_list(T(q, 1), f.b)
        ELSE error(T(q, 1), "ExpectToken (")
      returns(q) ==
        IF Nth(q, 0) = "->" THEN type_expr(eat(q, "->")) ELSE eat(q, "->")
      body(q) ==
        IF Nth(q, 0) = "{" THEN Call(T(q, 1), st, Finish(f.m, kind), Enter("block"))
        ELSE Return(finish_node(T(q, 1), f.m, kind), st)
  IN body(returns(params(named(expect(assert_at(p, {"fn"}), "fn")))))

arg(p, st, f) ==
  LET labelled(q) ==
        IF is_labelled(q) THEN label(after_is_labelled(q)) ELSE after_is_labelled(q)
      value(q) ==
        IF Nth(q, 0) \in EXPR_FIRST THEN T(q, 1)
        ELSE error(T(q, 1), "ExpectedExpression")
  IN Call(value(labelled(start_node(p))), st, Cont("arg_end", Mark(p)), EnterExpr(0))

arg_end(p, st, f) == Return(comma_unless(finish_node(p, f.m, "ARG"), ")"), st)

arg_list(p, st, f) ==
  Goto(expect(start_node(assert_at(p, {"("})), "("), st, Cont("arg_list_loop", Mark(p)))

arg_list_loop(p, st, f) ==
  IF Nth(p, 0) = ")" \/ eof(p)
  THEN Return(finish_node(expect(T(p, 1), ")"), f.m, "ARG_LIST"), st)
  ELSE IF Nth(p, 0) \in EXPR_FIRST THEN Call(T(p, 2), st, f, Enter("arg"))
  ELSE Return(finish_node(expect(T(p, 2), ")"), f.m, "ARG_LIST"), st)

list(p, st, f) ==
  Goto(expect(start_node(assert_at(p, {"["})), "["), st, Cont("list_loop", Mark(p)))

list_loop(p, st, f) ==
  IF Nth(p, 0) = "]" \/ eof(p)
  THEN Return(finish_node(expect(T(p, 1), "]"), f.m, "LIST"), st)
  ELSE IF Nth(p, 0) \in {".."} \cup EXPR_FIRST
  THEN Call(T(p, 2), st, Cont("list_elem_end", f.m), EnterExpr(0))
  ELSE Return(finish_node(expect(T(p, 2), "]"), f.m, "LIST"), st)

list_elem_end(p, st, f) == Goto(comma_unless(p, "]"), st, Cont("list_loop", f.m))

tuple(p, st, f) ==
  Goto(expect(expect(start_node(assert_at(p, {"#"})), "#"), "("), st,
       Cont("tuple_loop", Mark(p)))

tuple_loop(p, st, f) ==
  IF eof(p) THEN Return(finish_node(expect(p, ")"), f.m, "TUPLE"), st)
  ELSE IF Nth(p, 0) = ")"
  THEN Return(finish_node(expect(T(p, 1), ")"), f.m, "TUPLE"), st)
  ELSE IF Nth(p, 0) \in EXPR_FIRST
  THEN Call(T(p, 2), st, Cont("tuple_elem_end", f.m), EnterExpr(0))
  ELSE Return(finish_node(expect(T(p, 2), ")"), f.m, "TUPLE"), st)

tuple_elem_end(p, st, f) == Goto(comma_unless(p, ")"), st, Cont("tuple_loop", f.m))

clause(p, st, f) ==
  LET \* after the patterns of the clause
      guard(q, m) ==
        IF Nth(q, 0) = "if"
        THEN Call(expect(start_node(T(q, 1)), "if"), st,
                  Frame("clause_guard_end", m, Mark(q), "", FALSE), EnterExpr(0))
        ELSE Goto(T(q, 1), st, Cont("clause_arrow", m))
  IN guard(clause_loop(start_node(p)), Mark(p))

clause_guard_end(p, st, f) ==
  Goto(finish_node(p, f.n, "PATTERN_GUARD"), st, Cont("clause_arrow", f.m))

clause_arrow(p, st, f) == expr_or_error(expect(p, "->"), st, Finish(f.m, "CLAUSE"))

case(p, st, f) ==
  Goto(expect(start_node(assert_at(p, {"case"})), "case"), st,
       Cont("case_subjects", Mark(p)))

case_subjects(p, st, f) ==
  IF eof(p) THEN Goto(p, st, Cont("case_body", f.m))
  ELSE IF Nth(p, 0) \in EXPR_FIRST
  THEN Call(T(p, 1), st, Cont("case_subject_end", f.m), EnterExpr(0))
  ELSE IF Nth(p, 0) \in STMT_EXPR_RECOVERY THEN Goto(T(p, 2), st, Cont("case_body", f.m))
  ELSE Goto(bump_with_error(T(p, 2), "ExpectedExpression"), st, f)

case_subject_end(p, st, f) ==
  IF Nth(p, 0) = "," THEN Goto(eat(p, ","), st, Cont("case_subjects", f.m))
  ELSE Goto(eat(p, ","), st, Cont("case_body", f.m))

case_body(p, st, f) ==
  IF Nth(p, 0) = "{" THEN Goto(eat(p, "{"), st, Cont("case_clauses", f.m))
  ELSE Return(finish_node(error(eat(p, "{"), "ExpectToken {"), f.m, "CASE"), st)

\* case_clauses whose recovery records the error without consuming the token.
case_clauses_no_bump(p, st, f) ==
  IF Nth(p, 0) = "}" \/ eof(p)
  THEN Return(finish_node(expect(T(p, 1), "}"), f.m, "CASE"), st)
  ELSE IF Nth(p, 0) \in PATTERN_FIRST THEN Call(T(p, 2), st, f, Enter("clause"))
  ELSE IF Nth(p, 0) \in EXPR_FIRST \cup STMT_EXPR_RECOVERY
  THEN Return(finish_node(expect(T(p, 3), "}"), f.m, "CASE"), st)
  ELSE Goto(error(T(p, 3), "ExpectedExpression"), st, f)

case_clauses(p, st, f) ==
  IF Nth(p, 0) = "}" \/ eof(p)
  THEN Return(finish_node(expect(T(p, 1), "}"), f.m, "CASE"), st)
  ELSE IF Nth(p, 0) \in PATTERN_FIRST THEN Call(T(p, 2), st, f, Enter("clause"))
  ELSE IF Nth(p, 0) \in EXPR_FIRST \cup STMT_EXPR_RECOVERY
  THEN Return(finish_node(expect(T(p, 3), "}"), f.m, "CASE"), st)
  ELSE Goto(bump_with_error(T(p, 3), "ExpectedExpression"), st, f)

expr_unit(p, st, f) ==
  LET k == Nth(p, 0)
      q == T(p, 1)
      m == Mark(p)
      \* after `p.bump()` of panic or todo
      missing(q1) ==
        IF Nth(q1, 0) = "as"
        THEN Call(eat(q1, "as"), st, Finish(m, "MISSING"), EnterExpr(0))
        ELSE Return(finish_node(eat(q1, "as"), m, "MISSING"), st)
      \* after `p.expect(T![".."])`
      spread(q1) ==
        IF Nth(q1, 0) \in EXPR_FIRST
        THEN Call(T(q1, 1), st, Finish(m, "EXPR_SPREAD"), EnterExpr(0))
        ELSE Return(finish_node(T(q1, 1), m, "EXPR_SPREAD"), st)
  IN IF k \in {"INTEGER", "FLOAT", "STRING"}
     THEN Return(finish_node(bump(start_node(q)), m, "LITERAL"), st)
     ELSE IF k = "IDENT"
     THEN Return(finish_node(name_ref(start_node(q)), m, "VARIABLE"), st)
     ELSE IF k = "U_IDENT"
     THEN Return(finish_node(name_ref(start_node(q)), m, "VARIANT_CONSTRUCTOR"), st)
     ELSE IF k = "DISCARD_IDENT"
     THEN Return(finish_node(bump(start_node(q)), m, "HOLE"), st)
     ELSE IF k = "<<" THEN Return(bit_array(q), st)
     ELSE IF k = "{" THEN Goto(q, st, Enter("block"))
     ELSE IF k = "#" THEN Goto(q, st, Enter("tuple"))
     ELSE IF k = "[" THEN Goto(q, st, Enter("list"))
     ELSE IF k = "case" THEN Goto(q, st, Enter("case"))
     ELSE IF k \in {"panic", "todo"} THEN missing(bump(start_node(q)))
     ELSE IF k = "fn" THEN Goto(start_node(q), st, Frame("function", m, 0, "", TRUE))
     ELSE IF k = ".." THEN spread(expect(start_node(q), ".."))
     ELSE Return([q EXCEPT !.ret = 0], st)

\* expr_bp(p, min_bp): min_bp is f.n (parser.rs:668-683).
expr_bp(p, st, f) ==
  LET rbp == prefix_bp(Nth(p, 0))
  IN IF rbp # <<>>
     THEN Call(bump(start_node(T(p, 1))), st,
               Frame("expr_bp_unary", Mark(p), f.n, "", FALSE), EnterExpr(rbp[1]))
     ELSE Call(T(p, 1), st, Frame("expr_bp_lhs", 0, f.n, "", FALSE), Enter("expr_unit"))

expr_bp_unary(p, st, f) ==
  Goto(finish_node(p, f.m, "UNARY_OP"), st, Frame("expr_bp_postfix", 0, f.n, "", FALSE))

\* `let Some(mut lhs) = ... else { return }`: p.ret = 0 is None.
expr_bp_lhs(p, st, f) ==
  IF p.ret = 0 THEN Return(p, st)
  ELSE Goto(p, st, Frame("expr_bp_postfix", 0, f.n, "", FALSE))

\* The postfix loop with a call node opened at the `(` instead of before lhs.
expr_bp_postfix_call_at_paren(p, st, f) ==
  LET lhs == p.ret
      infix == Frame("expr_bp_infix", 0, f.n, "", FALSE)
      \* `match p.nth(0)` on k after `let m = p.start_node_before(lhs)`
      member(q, k) ==
        IF k \in {"IDENT", "U_IDENT"}
        THEN Goto(finish_node(name_ref(q), lhs, "FIELD_ACCESS"), st, f)
        ELSE IF k = "INTEGER"
        THEN Goto(finish_node(finish_node(bump(start_node(q)), Mark(q), "LITERAL"),
                              lhs, "TUPLE_INDEX"), st, f)
        ELSE Goto(finish_node(error(q, "ExpectedIdentifier"), lhs, "FIELD_ACCESS"),
                  st, infix)
      \* after `p.expect(T!["."])`
      dot(q) == member(start_node_before(T(q, 1), lhs), Nth(q, 0))
  IN IF Nth(p, 0) = "("
     THEN Call(start_node(T(p, 1)), st,
               Frame("expr_bp_call", Mark(p), f.n, "", FALSE), Enter("arg_list"))
     ELSE IF Nth(p, 0) = "." THEN dot(expect(T(p, 1), "."))
     ELSE Goto(T(p, 1), st, infix)

\* The postfix loop (parser.rs:685-717); lhs is p.ret.
expr_bp_postfix(p, st, f) ==
  LET lhs == p.ret
      infix == Frame("expr_bp_infix", 0, f.n, "", FALSE)
      \* `match p.nth(0)` on k after `let m = p.start_node_before(lhs)`
      member(q, k) ==
        IF k \in {"IDENT", "U_IDENT"}
        THEN Goto(finish_node(name_ref(q), lhs, "FIELD_ACCESS"), st, f)
        ELSE IF k = "INTEGER"
        THEN Goto(finish_node(finish_node(bump(start_node(q)), Mark(q), "LITERAL"),
                              lhs, "TUPLE_INDEX"), st, f)
        ELSE Goto(finish_node(error(q, "ExpectedIdentifier"), lhs, "FIELD_ACCESS"),
                  st, infix)
      \* after `p.expect(T!["."])`
      dot(q) == member(start_node_before(T(q, 1), lhs), Nth(q, 0))
  IN IF Nth(p, 0) = "("
     THEN Call(start_node_before(T(p, 1), lhs), st,
               Frame("expr_bp_call", lhs, f.n, "", FALSE), Enter("arg_list"))
     ELSE IF Nth(p, 0) = "." THEN dot(expect(T(p, 1), "."))
     ELSE Goto(T(p, 1), st, infix)

expr_bp_call(p, st, f) ==
  Goto(finish_node(p, f.m, "EXPR_CALL"), st, Frame("expr_bp_postfix", 0, f.n, "", FALSE))

\* The infix loop without the `lbp < min_bp` exit.
expr_bp_infix_no_min_bp(p, st, f) ==
  LET lhs == p.ret
      right == Nth(p, 0)
      bps == infix_bp(Nth(p, 0))
      \* after `p.bump()` of the operator
      operand(q) ==
        IF Nth(q, 0) \notin EXPR_FIRST THEN Return(T(q, 1), st)
        ELSE Call(start_node_before(T(q, 1), lhs), st,
                  Frame("expr_bp_binary", lhs, f.n, right, FALSE), EnterExpr(bps[2]))
  IN IF bps = <<>> THEN Return(T(p, 1), st)
     ELSE IF bps[1] = f.n THEN Return(error(T(p, 1), "MultipleNoAssoc"), st)
     ELSE operand(bump(T(p, 1)))

\* The infix loop (parser.rs:719-747); lhs is p.ret.
expr_bp_infix(p, st, f) ==
  LET lhs == p.ret
      right == Nth(p, 0)
      bps == infix_bp(Nth(p, 0))
      \* after `p.bump()` of the operator
      operand(q) ==
        IF Nth(q, 0) \notin EXPR_FIRST THEN Return(T(q, 1), st)
        ELSE Call(start_node_before(T(q, 1), lhs), st,
                  Frame("expr_bp_binary", lhs, f.n, right, FALSE), EnterExpr(bps[2]))
  IN IF bps = <<>> THEN Return(T(p, 1), st)
     ELSE IF bps[1] = f.n THEN Return(error(T(p, 1), "MultipleNoAssoc"), st)
     ELSE IF bps[1] < f.n THEN Return(T(p, 1), st)
     ELSE operand(bump(T(p, 1)))

expr_bp_binary(p, st, f) ==
  Goto(finish_node(p, f.m, IF f.s = "|>" THEN "PIPE" ELSE "BINARY_OP"), st,
       Frame("expr_bp_infix", 0, f.n, "", FALSE))

\* module_const(p, m): m is f.m.
module_const(p, st, f) ==
  LET \* after `p.bump()` of const
      named(q) == finish_node(expect(start_node(q), "IDENT"), Mark(q), "NAME")
  IN Call(expect(opt_type_annotation(named(bump(assert_at(p, {"const"})))), "="), st,
          Finish(f.m, "MODULE_CONSTANT"), EnterExpr(0))

\* `match p.nth(0)` of statement, after `let is_pub = p.eat(T!["pub"])`.
declaration(p, st, m, is_pub) ==
  LET k == Nth(p, 0)
      q == T(p, 1)
      \* the `_` arm
      unexpected(q1) == finish_node(IF eof(q1) THEN q1 ELSE bump(q1), m, "ERROR")
  IN IF k = "const" THEN Goto(q, st, Cont("module_const", m))
     ELSE IF k = "fn" THEN Goto(q, st, Cont("function", m))
     ELSE IF k = "import"
     THEN Return(import(IF is_pub THEN error(q, "UnexpectedImport") ELSE q, m), st)
     ELSE IF k \in {"type", "opaque"} THEN Return(custom_type(q, m), st)
     ELSE Return(unexpected(error(q, "ExpectedStatement")), st)

\* statement after `attributes(p)`.
visibility(p, st, m) == declaration(eat(p, "pub"), st, m, Nth(p, 0) = "pub")

\* statement with the node opened after the attributes.
statement_attributes_first(p, st, f) ==
  visibility(start_node(attributes(p)), st, Mark(attributes(p)))

statement(p, st, f) == visibility(attributes(start_node(p)), st, Mark(p))

\* One step of the machine: the running frame runs to its next call or return.
step(s) ==
  LET f == s.stack[Len(s.stack)]
      st == SubSeq(s.stack, 1, Len(s.stack) - 1)
      p == s.p
  IN CASE f.k = "finish_node" -> finish_node_return(p, st, f)
       [] f.k = "expr_bp" -> expr_bp(p, st, f)
       [] f.k = "expr_bp_lhs" -> expr_bp_lhs(p, st, f)
       [] f.k = "expr_bp_unary" -> expr_bp_unary(p, st, f)
       [] f.k = "expr_bp_postfix" -> expr_bp_postfix(p, st, f)
       [] f.k = "expr_bp_call" -> expr_bp_call(p, st, f)
       [] f.k = "expr_bp_infix" -> expr_bp_infix(p, st, f)
       [] f.k = "expr_bp_binary" -> expr_bp_binary(p, st, f)
       [] f.k = "expr_unit" -> expr_unit(p, st, f)
       [] f.k = "block" -> block(p, st, f)
       [] f.k = "block_loop" -> block_loop(p, st, f)
       [] f.k = "stmt_expr" -> stmt_expr(p, st, f)
       [] f.k = "stmt_let" -> stmt_let(p, st, f)
       [] f.k = "stmt_use" -> stmt_use(p, st, f)
       [] f.k = "function" -> function(p, st, f)
       [] f.k = "arg_list" -> arg_list(p, st, f)
       [] f.k = "arg_list_loop" -> arg_list_loop(p, st, f)
       [] f.k = "arg" -> arg(p, st, f)
       [] f.k = "arg_end" -> arg_end(p, st, f)
       [] f.k = "list" -> list(p, st, f)
       [] f.k = "list_loop" -> list_loop(p, st, f)
       [] f.k = "list_elem_end" -> list_elem_end(p, st, f)
       [] f.k = "tuple" -> tuple(p, st, f)
       [] f.k = "tuple_loop" -> tuple_loop(p, st, f)
       [] f.k = "tuple_elem_end" -> tuple_elem_end(p, st, f)
       [] f.k = "case" -> case(p, st, f)
       [] f.k = "case_subjects" -> case_subjects(p, st, f)
       [] f.k = "case_subject_end" -> case_subject_end(p, st, f)
       [] f.k = "case_body" -> case_body(p, st, f)
       [] f.k = "case_clauses" -> case_clauses(p, st, f)
       [] f.k = "clause" -> clause(p, st, f)
       [] f.k = "clause_guard_end" -> clause_guard_end(p, st, f)
       [] f.k = "clause_arrow" -> clause_arrow(p, st, f)
       [] f.k = "module_const" -> module_const(p, st, f)
       [] f.k = "statement" -> statement(p, st, f)

\* The machine stops when the entered rule has returned or the parse panicked.
halted(s) == s.stack = <<>> \/ ~Live(s.p)

\* At most n steps of the machine.
RECURSIVE run(_, _)
run(s, n) ==
  IF halted(s) THEN s
  ELSE IF n = 1 THEN step(s)
  ELSE run(run(s, n \div 2), n - (n \div 2))

RECURSIVE pow2(_)
pow2(n) == IF n = 0 THEN 1 ELSE 2 * pow2(n - 1)

\* 2^k steps of the machine, then 2^(k+1), up to 2^(MaxStepsLog - 1).
RECURSIVE run_doubling(_, _)
run_doubling(s, k) ==
  IF halted(s) \/ k = MaxStepsLog THEN s
  ELSE run_doubling(run(s, pow2(k)), k + 1)

\* The parser state when the call of the rule `entry` on p has returned.
call(p, entry) ==
  LET \* after fewer than 2^MaxStepsLog steps
      result(s) ==
        IF halted(s) THEN s.p ELSE [s.p EXCEPT !.panic = "step bound exceeded"]
  IN result(run_doubling([p |-> p, stack |-> <<entry>>], 0))

\* ------------------------------------------------------------------------
\* Tree builder (parser.rs:135-203).  A tree element is a record
\*   kind : a SyntaxKind, ch : the children of a node,
\*   tok  : 0 for a node, the index in tokens_raw for a token.
\* The builder state b holds the GreenNodeBuilder (parents, children), the
\* cursor pos into tokens_raw and the panic that ended the replay, if any.
\* ------------------------------------------------------------------------
Min(S) == CHOOSE x \in S : \A y \in S : x <= y

\* kind.$ident() for the method name passed to n_tokens!.
kind_is(k, ident) ==
  CASE ident = "is_trivia" -> is_trivia(k)
    [] ident = "is_whitespace" -> is_whitespace(k)
    [] ident = "is_module_doc" -> is_module_doc(k)
    [] ident = "is_stmt_doc" -> is_stmt_doc(k)

\* n_tokens!(ident): the length of the run of raw tokens from `from` whose
\* kind satisfies ident.
n_tokens(ident, from) ==
  LET stop == {i \in from..Len(tokens_raw) : ~kind_is(tokens_raw[i], ident)}
  IN IF stop = {} THEN Len(tokens_raw) - from + 1 ELSE Min(stop) - from

Leaf(i) == [kind |-> tokens_raw[i], ch |-> <<>>, tok |-> i]

\* eat_token(n): n calls of builder.token on the tokens from b.pos.
eat_token(b, n) ==
  IF b.panic # "none" THEN b
  ELSE IF b.pos + n - 1 > Len(tokens_raw)
  THEN [b EXCEPT !.panic = "unwrap on None"]
  ELSE [b EXCEPT !.children = b.children \o [i \in 1..n |-> Leaf(b.pos + i - 1)],
                 !.pos = b.pos + n]

builder_start_node(b, kind) ==
  IF b.panic # "none" THEN b
  ELSE [b EXCEPT !.parents =
          Append(b.parents, [kind |-> kind, first_child |-> Len(b.children)])]

builder_finish_node(b) ==
  IF b.panic # "none" THEN b
  ELSE IF b.parents = <<>> THEN [b EXCEPT !.panic = "unwrap on None"]
  ELSE LET top == b.parents[Len(b.parents)]
           node == [kind |-> top.kind,
                    ch |-> SubSeq(b.children, top.first_child + 1, Len(b.children)),
                    tok |-> 0]
       IN [b EXCEPT !.parents = SubSeq(b.parents, 1, Len(b.parents) - 1),
                    !.children = Append(SubSeq(b.children, 1, top.first_child), node)]

\* GreenNodeBuilder::new() with the cursor pos of build_tree at the first raw
\* token; next is the index of the event that `for event in events` takes
\* next.
GreenNodeBuilder_new ==
  [parents |-> <<>>, children |-> <<>>, pos |-> 1, panic |-> "none", next |-> 1]

\* replay with an Advance that eats the leading trivia only.
replay_advance_trivia_only(b, event) ==
  IF event = "Close" THEN builder_finish_node(b)
  ELSE IF event = "Advance" THEN eat_token(b, n_tokens("is_trivia", b.pos))
  ELSE IF event = "SOURCE_FILE"
  THEN LET b1 == builder_start_node(b, event)
       IN eat_token(b1, n_tokens("is_module_doc", b1.pos))
  ELSE IF event \in {"FUNCTION", "MODULE_CONSTANT", "ADT", "VARIANT"}
  THEN LET b1 == builder_start_node(eat_token(b, n_tokens("is_whitespace", b.pos)), event)
       IN eat_token(b1, n_tokens("is_stmt_doc", b1.pos))
  ELSE builder_start_node(eat_token(b, n_tokens("is_trivia", b.pos)), event)

\* replay with the module-doc trivia eaten before the root node is opened.
replay_module_doc_before_root(b, event) ==
  IF event = "Close" THEN builder_finish_node(b)
  ELSE IF event = "Advance" THEN eat_token(b, n_tokens("is_trivia", b.pos) + 1)
  ELSE IF event = "SOURCE_FILE"
  THEN builder_start_node(eat_token(b, n_tokens("is_module_doc", b.pos)), event)
  ELSE IF event \in {"FUNCTION", "MODULE_CONSTANT", "ADT", "VARIANT"}
  THEN LET b1 == builder_start_node(eat_token(b, n_tokens("is_whitespace", b.pos)), event)
       IN eat_token(b1, n_tokens("is_stmt_doc", b1.pos))
  ELSE builder_start_node(eat_token(b, n_tokens("is_trivia", b.pos)), event)

\* replay with a Close that eats the trivia at the cursor before it closes.
replay_close_eats_trivia(b, event) ==
  IF event = "Close"
  THEN builder_finish_node(eat_token(b, n_tokens("is_trivia", b.pos)))
  ELSE IF event = "Advance" THEN eat_token(b, n_tokens("is_trivia", b.pos) + 1)
  ELSE IF event = "SOURCE_FILE"
  THEN LET b1 == builder_start_node(b, event)
       IN eat_token(b1, n_tokens("is_module_doc", b1.pos))
  ELSE IF event \in {"FUNCTION", "MODULE_CONSTANT", "ADT", "VARIANT"}
  THEN LET b1 == builder_start_node(eat_token(b, n_tokens("is_whitespace", b.pos)), event)
       IN eat_token(b1, n_tokens("is_stmt_doc", b1.pos))
  ELSE builder_start_node(eat_token(b, n_tokens("is_trivia", b.pos)), event)

\* One iteration of `for event in events`.
replay(b, event) ==
  IF event = "Close" THEN builder_finish_node(b)
  ELSE IF event = "Advance" THEN eat_token(b, n_tokens("is_trivia", b.pos) + 1)
  ELSE IF event = "SOURCE_FILE"
  THEN LET b1 == builder_start_node(b, event)
       IN eat_token(b1, n_tokens("is_module_doc", b1.pos))
  ELSE IF event \in {"FUNCTION", "MODULE_CONSTANT", "ADT", "VARIANT"}
  THEN LET b1 == builder_start_node(eat_token(b, n_tokens("is_whitespace", b.pos)), event)
       IN eat_token(b1, n_tokens("is_stmt_doc", b1.pos))
  ELSE builder_start_node(eat_token(b, n_tokens("is_trivia", b.pos)), event)

\* `for event in events`, over evs[lo..hi].
RECURSIVE replay_all(_, _, _, _)
replay_all(b, evs, lo, hi) ==
  IF b.panic # "none" \/ lo > hi THEN b
  ELSE IF lo = hi THEN replay(b, evs[lo])
  ELSE replay_all(replay_all(b, evs, lo, (lo + hi) \div 2), evs,
                  (lo + hi) \div 2 + 1, hi)

\* build_tree: the builder state after the final finish_node.
build_tree(evs) ==
  LET b0 == [parents |-> <<>>, children |-> <<>>, pos |-> 1, panic |-> "none"]
      b1 == replay_all(b0, evs, 1, Len(evs) - 1)
      b2 == builder_finish_node(eat_token(b1, n_tokens("is_trivia", b1.pos)))
  IN IF b2.panic = "none" /\ Len(b2.children) # 1
     THEN [b2 EXCEPT !.panic = "assertion failed"]
     ELSE b2

\* ------------------------------------------------------------------------
\* parse_module (parser.rs:86-105) and module (parser.rs:295-301) as a
\* state machine: one step per statement of the module loop.
\* ------------------------------------------------------------------------
not_trivia(k) == ~is_trivia(k)

filter_trivia(raw) == SelectSeq(raw, not_trivia)

NoTree == [kind |-> "NONE", ch |-> <<>>, tok |-> 0]

\* The values of crates/ide/src/base.rs at construction.  A HashMap is the
\* set of its <<key, value>> entries.
\* FileSet::default(): two empty maps.
FileSet_default == [files |-> {}, paths |-> {}]

\* Change::default(): nothing set, no file change.
Change_default ==
  [package_graph |-> <<>>, roots |-> <<>>, module_map |-> <<>>, file_changes |-> <<>>]

\* The inputs of a SourceDatabase on which no setter has been called.
NoInputs ==
  [package_graph |-> <<>>, module_map |-> <<>>, source_root |-> {},
   file_source_root |-> {}, file_content |-> {}]

P == [pos |-> pos, fuel |-> fuel, errors |-> errors, events |-> events,
      panic |-> panic, ret |-> 0, marks |-> marks]

\* The parser state written back to the variables.
Store(q) ==
  /\ pos' = q.pos
  /\ fuel' = q.fuel
  /\ errors' = q.errors
  /\ events' = q.events
  /\ panic' = q.panic
  /\ marks' = q.marks

\* a < b on lengths.
Less(a, b) == a.hi < b.hi \/ (a.hi = b.hi /\ a.lo < b.lo)

\* The length of a text whose tokens are one byte each.
OneByteEach(raw) == [hi |-> 0, lo |-> Len(raw)]

InitWith(inputs) ==
  /\ tokens_raw \in inputs
  /\ src_len = OneByteEach(tokens_raw)
  /\ tokens = <<>>
  /\ pos = 1
  /\ fuel = FUEL
  /\ errors = <<>>
  /\ events = <<>>
  /\ pc = "new"
  /\ green = NoTree
  /\ panic = "none"
  /\ syntax_node = <<>>
  /\ builder = GreenNodeBuilder_new
  /\ marks = NoMarks
  /\ file_set = FileSet_default
  /\ change = Change_default
  /\ db = NoInputs
  /\ returned = <<>>

\* parse_module up to the construction of the Parser: the assertion on the
\* length of the text, then the lexer's tokens without the trivia.
NewParser ==
  /\ pc = "new"
  /\ IF Less(src_len, U32_MAX)
     THEN tokens' = filter_trivia(tokens_raw) /\ pc' = "module" /\ panic' = panic
     ELSE tokens' = tokens /\ pc' = "panicked" /\ panic' = "assertion failed"
  /\ UNCHANGED <<src_len, tokens_raw, pos, fuel, errors, events, green, syntax_node, returned, builder, marks, file_set, change, db>>

ModuleOpen ==
  /\ pc = "module"
  /\ Store(start_node(P))
  /\ pc' = "statements"
  /\ UNCHANGED <<src_len, tokens_raw, tokens, green, syntax_node, returned, builder, file_set, change, db>>

Statement ==
  /\ pc = "statements"
  /\ ~eof(P)
  /\ LET q == call(P, Enter("statement"))
     IN /\ Store(q)
        /\ pc' = IF Live(q) THEN "statements" ELSE "panicked"
  /\ UNCHANGED <<src_len, tokens_raw, tokens, green, syntax_node, returned, builder, file_set, change, db>>

ModuleClose ==
  /\ pc = "statements"
  /\ eof(P)
  /\ Store(finish_node(P, 1, "SOURCE_FILE"))
  /\ pc' = "build"
  /\ UNCHANGED <<src_len, tokens_raw, tokens, green, syntax_node, returned, builder, file_set, change, db>>

BuildTree ==
  /\ pc = "build"
  /\ LET b == build_tree(events)
     IN IF b.panic = "none"
        THEN green' = b.children[1] /\ pc' = "done" /\ panic' = panic
        ELSE green' = green /\ pc' = "panicked" /\ panic' = b.panic
  /\ UNCHANGED <<src_len, tokens_raw, tokens, pos, fuel, errors, events, syntax_node, returned, builder, marks, file_set, change, db>>

Next == NewParser \/ ModuleOpen \/ Statement \/ ModuleClose \/ BuildTree

\* ------------------------------------------------------------------------
\* Specification Spec: the parse of every token sequence made of a context
\* (nothing, an open function body, an open case expression) followed by
\* at most MaxLen tokens of Alphabet, trivia included.
\* ------------------------------------------------------------------------
Alphabet ==
  {"fn", "const", "IDENT", "U_IDENT", "(", ")", "{", "}", "[", ",", "<<", "#",
   "+", ".", "WHITESPACE", "COMMENT"}

InFunction == <<"fn", "IDENT", "(", ")", "{">>

InCase == InFunction \o <<"case", "IDENT", "{">>

Contexts == {<<>>, InFunction, InCase}

SeqsUpTo(S, n) == UNION {[1..k -> S] : k \in 0..n}

Inputs == {c \o s : c \in Contexts, s \in SeqsUpTo(Alphabet, MaxLen)}

Init == InitWith(Inputs)

Spec == Init /\ [][Next]_vars

\* ------------------------------------------------------------------------
\* Observations of the result.
\* ------------------------------------------------------------------------
\* The raw-token indices at the leaves of the children i.. of t, left to right.
RECURSIVE leaves(_, _)
leaves(t, i) ==
  IF t.tok # 0 THEN <<t.tok>>
  ELSE IF i > Len(t.ch) THEN <<>>
  ELSE leaves(t.ch[i], 1) \o leaves(t, i + 1)

IsOpen(e) == e \notin {"Close", "Advance"}

Opens(evs, i) == Cardinality({j \in 1..i : IsOpen(evs[j])})

Closes(evs, i) == Cardinality({j \in 1..i : evs[j] = "Close"})

Advances(evs, i) == Cardinality({j \in 1..i : evs[j] = "Advance"})

\* Opens minus Closes among the first i events.
Depth(evs, i) == Opens(evs, i) - Closes(evs, i)

\* C1: when parse_module returns, the leaves of the tree are exactly the raw
\* tokens, trivia included, each once and in lexer order.
C1_Lossless ==
  pc = "done" => leaves(green, 1) = [i \in 1..Len(tokens_raw) |-> i]

C1_Witness ==
  /\ pc = "done"
  /\ Len(tokens_raw) >= 3
  /\ is_trivia(tokens_raw[1])
  /\ is_trivia(tokens_raw[Len(tokens_raw)])
  /\ \E i \in 1..Len(tokens_raw) : ~is_trivia(tokens_raw[i])

C10_WellNested ==
  pc = "build" =>
    LET n == Len(events)
    IN /\ events[1] = "SOURCE_FILE"
       /\ events[n] = "Close"
       /\ \A i \in 1..(n - 1) : Depth(events, i) >= 1
       /\ Depth(events, n) = 0
       /\ Advances(events, n) = Len(tokens)
       /\ pos = Len(tokens) + 1

C10_Witness ==
  /\ pc = "build"
  /\ \E i \in 1..Len(events) : events[i] = "EXPR_CALL"
  /\ errors # <<>>

\* ------------------------------------------------------------------------
\* Specification SpecDeep: the parse of a function body that opens n lists
\* and closes none, for every n up to MaxDepth.
\* ------------------------------------------------------------------------
DeepInputs == {InFunction \o [i \in 1..n |-> "["] : n \in 0..MaxDepth}

InitDeep == InitWith(DeepInputs)

SpecDeep == InitDeep /\ [][Next]_vars

\* C2: parse_module returns on every input: the fuel never reaches 0 and
\* the "parser is stuck" panic of nth never happens.
C2_Total == fuel > 0 /\ panic # "parser is stuck"

\* The nesting at which the peeks after the last bump exceed the fuel.
C2_Stuck ==
  /\ pc = "panicked"
  /\ panic = "parser is stuck"
  /\ Len(tokens) = Len(InFunction) + MaxDepth
  /\ pos = Len(tokens) + 1

\* ------------------------------------------------------------------------
\* Specification SpecExpr: the parse of `fn f() { e }` where e is a chain of
\* at most MaxOperands identifiers joined by infix operators, or an
\* identifier followed by at most MaxPostfix postfix forms.
\* ------------------------------------------------------------------------
InfixOps ==
  {"||", "&&", "==", "!=", "<", "<=", "<.", "<=.", ">", ">=", ">.", ">=.",
   "<>", "|>", "+", "-", "+.", "-.", "*", "/", "*.", "/.", "%"}

\* a ops[1] b ops[2] c ...
Chain(ops) ==
  [i \in 1..(2 * Len(ops) + 1) |-> IF i % 2 = 1 THEN "IDENT" ELSE ops[i \div 2]]

PostfixForms == {"field", "index", "call0", "call1"}

FormTokens(form) ==
  CASE form = "field" -> <<".", "IDENT">>
    [] form = "index" -> <<".", "INTEGER">>
    [] form = "call0" -> <<"(", ")">>
    [] form = "call1" -> <<"(", "IDENT", ")">>

FormKind(form) ==
  CASE form = "field" -> "FIELD_ACCESS"
    [] form = "index" -> "TUPLE_INDEX"
    [] form \in {"call0", "call1"} -> "EXPR_CALL"

RECURSIVE Postfixed(_)
Postfixed(forms) ==
  IF forms = <<>> THEN <<"IDENT">>
  ELSE Postfixed(SubSeq(forms, 1, Len(forms) - 1)) \o FormTokens(forms[Len(forms)])

InBody(e) == InFunction \o e \o <<"}">>

ExprInputs ==
  {InBody(Chain(ops)) : ops \in SeqsUpTo(InfixOps, MaxOperands - 1)}
    \cup {InBody(Postfixed(forms)) : forms \in SeqsUpTo(PostfixForms, MaxPostfix)}

InitExpr == InitWith(ExprInputs)

SpecExpr == InitExpr /\ [][Next]_vars

\* The first child of t of the given kind.
Child(t, kind) == t.ch[Min({i \in 1..Len(t.ch) : t.ch[i].kind = kind})]

\* The node of e in the tree of `fn f() { e }`.
BodyExpr == Child(Child(Child(green, "FUNCTION"), "BLOCK"), "STMT_EXPR").ch[1]

IsBinary(t) == t.kind \in {"BINARY_OP", "PIPE"} /\ Len(t.ch) = 3

Binds(op2, op1) == infix_bp(op2)[1] > infix_bp(op1)[1]

FirstOperand == Len(InFunction) + 1

\* C4: when op2 binds tighter than op1, `a op1 b op2 c` has the node of
\* `b op2 c` as the right operand of the op1 node and `a op2 b op1 c` has the
\* node of `a op2 b` as the left operand of the op1 node.
C4_Precedence ==
  \A op1, op2 \in InfixOps :
    Binds(op2, op1) /\ pc = "done" =>
      /\ tokens_raw = InBody(Chain(<<op1, op2>>)) =>
           /\ IsBinary(BodyExpr)
           /\ BodyExpr.ch[2].tok = FirstOperand + 1
           /\ leaves(BodyExpr.ch[1], 1) = <<FirstOperand>>
           /\ IsBinary(BodyExpr.ch[3])
           /\ leaves(BodyExpr.ch[3], 1) = [i \in 1..3 |-> FirstOperand + 1 + i]
      /\ tokens_raw = InBody(Chain(<<op2, op1>>)) =>
           /\ IsBinary(BodyExpr)
           /\ BodyExpr.ch[2].tok = FirstOperand + 3
           /\ IsBinary(BodyExpr.ch[1])
           /\ leaves(BodyExpr.ch[1], 1) = [i \in 1..3 |-> FirstOperand - 1 + i]
           /\ leaves(BodyExpr.ch[3], 1) = <<FirstOperand + 4>>

C4_Witness ==
  /\ pc = "done"
  /\ tokens_raw = InBody(Chain(<<"+", "*">>))
  /\ IsBinary(BodyExpr) /\ IsBinary(BodyExpr.ch[3])

\* The comparison operators, by precedence level.
NoAssocLevels == {{"==", "!="}, {"<", "<=", "<.", "<=.", ">", ">=", ">.", ">=."}}

\* C5: an expression chaining two comparison operators of the same
\* precedence records a MultipleNoAssoc diagnostic.
C5_NoAssocClash ==
  \A level \in NoAssocLevels : \A op1, op2 \in level :
    pc = "done" /\ tokens_raw = InBody(Chain(<<op1, op2>>)) =>
      \E i \in 1..Len(errors) : errors[i].kind = "MultipleNoAssoc"

\* `a == b == c` parses without a diagnostic, associated to the left.
C5_SilentlyAssociated ==
  /\ pc = "done"
  /\ tokens_raw = InBody(Chain(<<"==", "==">>))
  /\ errors = <<>>
  /\ IsBinary(BodyExpr) /\ IsBinary(BodyExpr.ch[1])

\* The kinds met from t down the first children of its postfix nodes.
RECURSIVE Spine(_)
Spine(t) ==
  IF t.kind \in {"FIELD_ACCESS", "TUPLE_INDEX", "EXPR_CALL"} /\ t.ch # <<>>
  THEN <<t.kind>> \o Spine(t.ch[1])
  ELSE <<t.kind>>

Reverse(s) == [i \in 1..Len(s) |-> s[Len(s) + 1 - i]]

\* C6: the postfix forms applied to an atom nest left to right, each node
\* having the accumulated left-hand side as its first child; `a.b(c).0` is a
\* TUPLE_INDEX of an EXPR_CALL of a FIELD_ACCESS of the VARIABLE a.
C6_PostfixChain ==
  \A forms \in SeqsUpTo(PostfixForms, MaxPostfix) :
    pc = "done" /\ tokens_raw = InBody(Postfixed(forms)) =>
      /\ Spine(BodyExpr) =
           Reverse([i \in 1..Len(forms) |-> FormKind(forms[i])]) \o <<"VARIABLE">>
      /\ leaves(BodyExpr, 1) = [i \in 1..Len(Postfixed(forms)) |-> FirstOperand - 1 + i]
      /\ errors = <<>>

C6_Witness ==
  /\ pc = "done"
  /\ tokens_raw = InBody(Postfixed(<<"field", "call1", "index">>))
  /\ Spine(BodyExpr) = <<"TUPLE_INDEX", "EXPR_CALL", "FIELD_ACCESS", "VARIABLE">>

\* ------------------------------------------------------------------------
\* Specification SpecRecovery: the parse of `fn a (` followed by at most
\* MaxJunk tokens of a parameter list, closed or not, and then by the
\* well-formed function `fn b() { 1 }`.
\* ------------------------------------------------------------------------
ParamAlphabet == {")", ",", ":", "IDENT", "DISCARD_IDENT", "U_IDENT", "INTEGER", "("}

WellFormedFn == <<"fn", "IDENT", "(", ")", "{", "INTEGER", "}">>

RecoveryInputs ==
  {<<"fn", "IDENT", "(">> \o s \o WellFormedFn : s \in SeqsUpTo(ParamAlphabet, MaxJunk)}

InitRecovery == InitWith(RecoveryInputs)

SpecRecovery == InitRecovery /\ [][Next]_vars

\* The index in tokens_raw of the `fn` of the second function.
StartOfB == Len(tokens_raw) - Len(WellFormedFn) + 1

RECURSIVE HasError(_)
HasError(t) ==
  t.kind = "ERROR" \/ \E i \in 1..Len(t.ch) : HasError(t.ch[i])

Kinds(t) == [i \in 1..Len(t.ch) |-> t.ch[i].kind]

\* t is the node of the well-formed `fn b() { 1 }`.
IsFunctionB(t) ==
  /\ t.kind = "FUNCTION"
  /\ Kinds(t) = <<"fn", "NAME", "PARAM_LIST", "BLOCK">>
  /\ leaves(t, 1) = [i \in 1..Len(WellFormedFn) |-> StartOfB - 1 + i]
  /\ ~HasError(t)

C7_Tree == \E i \in 1..Len(green.ch) : IsFunctionB(green.ch[i])

C7_NoDiagnosticInB == \A i \in 1..Len(errors) : errors[i].range < StartOfB

\* C7: when `fn a` with an empty or malformed parameter list and no body is
\* directly followed by `fn b() { 1 }`, the tree has a FUNCTION node for b
\* with its NAME, PARAM_LIST and BLOCK and no ERROR descendant, and no
\* diagnostic has its range inside b.
C7_RecoveryLocal == pc = "done" => C7_Tree /\ C7_NoDiagnosticInB

\* `fn a ( fn b() { 1 }`: b is parsed whole, and the diagnostic for the
\* missing `)` of a carries the range of the `fn` of b.
C7_DiagnosticOnB ==
  /\ pc = "done"
  /\ tokens_raw = <<"fn", "IDENT", "(">> \o WellFormedFn
  /\ C7_Tree
  /\ errors = <<[range |-> StartOfB, kind |-> "ExpectToken )"]>>

\* The triples <<raw token index, kind of its parent node, depth of the
\* parent>> of the tree under t, which is at depth d.
RECURSIVE Parents(_, _)
Parents(t, d) ==
  UNION {IF t.ch[i].tok # 0 THEN {<<t.ch[i].tok, t.kind, d>>}
         ELSE Parents(t.ch[i], d + 1) : i \in 1..Len(t.ch)}

\* The tokens that start a top-level declaration (STMT_RECOVERY without `if`).
DeclarationStart == {"fn", "type", "import", "const", "pub"}

\* Token i was consumed by statement() itself, or is the `fn` of a lambda.
LeftToDispatcher(i) ==
  \E x \in Parents(green, 0) :
    /\ x[1] = i
    /\ x[3] = 1 \/ (tokens_raw[i] = "fn" /\ x[2] = "LAMBDA")

\* C8: no rule consumes, while recovering, a token that starts the next
\* top-level declaration; every such token is consumed by the statement
\* dispatcher.
C8_RecoveryStops ==
  pc = "done" =>
    \A i \in 1..Len(tokens_raw) : tokens_raw[i] \in DeclarationStart => LeftToDispatcher(i)

\* `case x { #( const`: pattern_tuple consumes the `const` into an ERROR node.
C8_ConstConsumed ==
  /\ pc = "done"
  /\ tokens_raw = InCase \o <<"#", "(", "const">>
  /\ \E x \in Parents(green, 0) : x[1] = Len(tokens_raw) /\ x[2] = "ERROR" /\ x[3] > 1

\* ------------------------------------------------------------------------
\* Specification SpecTrivia: the parse of `fn main() {}` preceded by at most
\* MaxTrivia trivia tokens, at the start of the file or after a constant.
\* The builder reads token kinds only: a line break and a blank line are
\* both one WHITESPACE token.
\* ------------------------------------------------------------------------
TriviaKinds == {"WHITESPACE", "COMMENT", "DOC_COMMENT", "MODULE_COMMENT"}

CommentKinds == TriviaKinds \ {"WHITESPACE"}

FnMain == <<"fn", "IDENT", "(", ")", "{", "}">>

Before == {<<>>, <<"const", "IDENT", "=", "INTEGER">>}

TriviaInputs ==
  {b \o t \o FnMain : b \in Before, t \in SeqsUpTo(TriviaKinds, MaxTrivia)}

InitTrivia == InitWith(TriviaInputs)

SpecTrivia == InitTrivia /\ [][Next]_vars

\* Raw token i is a child of the FUNCTION node.
InFunctionNode(i) == \E x \in Parents(green, 0) : x[1] = i /\ x[2] = "FUNCTION"

\* C9: a comment immediately before the function is a child of its FUNCTION
\* node; an earlier comment that a blank line (a WHITESPACE token) separates
\* from the function, or from the comment block before it, is not.
C9_DocAttachment ==
  pc = "done" =>
    \A b \in Before : \A c, d \in CommentKinds :
      LET n == Len(b)
      IN /\ tokens_raw = b \o <<c>> \o FnMain => InFunctionNode(n + 1)
         /\ tokens_raw = b \o <<c, "WHITESPACE">> \o FnMain => ~InFunctionNode(n + 1)
         /\ tokens_raw = b \o <<c, "WHITESPACE", d>> \o FnMain =>
              InFunctionNode(n + 3) /\ ~InFunctionNode(n + 1)

\* `// note`, blank line, `fn main() {}`: the comment is a child of FUNCTION.
C9_EarlierCommentAttached ==
  /\ pc = "done"
  /\ tokens_raw = <<"COMMENT", "WHITESPACE">> \o FnMain
  /\ InFunctionNode(1)

\* ------------------------------------------------------------------------
\* The diagnostics list.  A range is the index of the filtered token the
\* diagnostic points at (Len(tokens) + 1 for the empty range at the end of
\* the text); token ranges grow with the index, so offsets are compared by
\* comparing indices.
\* ------------------------------------------------------------------------
IsPrefix(s, t) == Len(s) <= Len(t) /\ SubSeq(t, 1, Len(s)) = s

Ordered(errs) == \A i \in 1..Len(errs) - 1 : errs[i].range <= errs[i + 1].range

\* C11: no step of a parse removes or reorders a recorded diagnostic (the
\* list before the step is a prefix of the list after it), and the
\* diagnostics are ordered left to right: their range starts never decrease
\* along the list, in the returned Parse in particular.
C11_ErrorsOrdered == [][IsPrefix(errors, errors') /\ Ordered(errors')]_vars

\* A returned Parse with diagnostics at two different places of the input.
C11_Witness ==
  /\ pc = "done"
  /\ Len(errors) >= 2
  /\ errors[1].range < errors[Len(errors)].range

\* ------------------------------------------------------------------------
\* The length assertion of parse_module: texts of one token whose length
\* lies within MaxSlack of u32::MAX and of 2^32.
\* ------------------------------------------------------------------------
LongLengths ==
  {[hi |-> 65535, lo |-> 65535 - k] : k \in 0..MaxSlack}
    \cup {[hi |-> 65536, lo |-> k] : k \in 0..MaxSlack}

InitLen ==
  /\ tokens_raw \in {<<"COMMENT">>, <<"STRING">>}
  /\ src_len \in LongLengths
  /\ tokens = <<>>
  /\ pos = 1
  /\ fuel = FUEL
  /\ errors = <<>>
  /\ events = <<>>
  /\ pc = "new"
  /\ green = NoTree
  /\ panic = "none"
  /\ syntax_node = <<>>
  /\ builder = GreenNodeBuilder_new
  /\ marks = NoMarks
  /\ file_set = FileSet_default
  /\ change = Change_default
  /\ db = NoInputs
  /\ returned = <<>>

SpecLen == InitLen /\ [][Next]_vars

\* The assertion of parse_module failed: nothing was lexed or parsed.
Rejected == pc = "panicked" /\ panic = "assertion failed" /\ events = <<>>

\* The length fits in a 32-bit byte offset: it is below 2^32.
FitsU32(len) == Less(len, [hi |-> 65536, lo |-> 0])

\* C12: parse_module rejects by its assertion exactly the texts whose
\* length is 2^32 or more; a text whose length fits in a 32-bit byte offset
\* is accepted and parsed.
C12_RejectsFrom4GiB ==
  /\ pc # "new" => (Rejected <=> ~FitsU32(src_len))
  /\ FitsU32(src_len) => pc # "panicked"

\* The text of 2^32 - 1 bytes, whose length fits in 32 bits, is rejected.
C12_RejectedAtU32Max == Rejected /\ src_len = U32_MAX /\ FitsU32(src_len)

\* ------------------------------------------------------------------------
\* The typed layer over the tree (crates/syntax/src/ast.rs).
\*
\* A typed wrapper is [ast, variant, syntax]: ast names the wrapper type,
\* variant the product struct holding the node (ast itself for a struct) and
\* syntax is the wrapped SyntaxNode.  An Option is a sequence of length at
\* most one.
\* ------------------------------------------------------------------------
None == <<>>

Some(x) == <<x>>

\* NodeWrapper::KIND of every struct declared by asts!.
KIND ==
  [Block |-> "BLOCK", BitString |-> "BIT_STRING", BinaryOp |-> "BINARY_OP",
   Pipe |-> "PIPE", ConstantList |-> "CONSTANT_LIST", Literal |-> "LITERAL",
   Adt |-> "ADT", CustomTypeAlias |-> "CUSTOM_TYPE_ALIAS", Variant |-> "VARIANT",
   VariantConstructor |-> "VARIANT_CONSTRUCTOR",
   ConstructorFieldList |-> "CONSTRUCTOR_FIELD_LIST",
   ConstructorField |-> "CONSTRUCTOR_FIELD", Lambda |-> "LAMBDA",
   Function |-> "FUNCTION", ExprCall |-> "EXPR_CALL", ArgList |-> "ARG_LIST",
   Arg |-> "ARG", FieldAccessExpr |-> "FIELD_ACCESS", TupleIndex |-> "TUPLE_INDEX",
   Import |-> "IMPORT", ModulePath |-> "MODULE_PATH", Variable |-> "VARIABLE",
   ExprSpread |-> "EXPR_SPREAD", SourceFile |-> "SOURCE_FILE",
   ModuleName |-> "MODULE_NAME", ModuleConstant |-> "MODULE_CONSTANT", Name |-> "NAME",
   TypeName |-> "TYPE_NAME", Label |-> "LABEL", Target |-> "TARGET", Path |-> "PATH",
   UnqualifiedImport |-> "UNQUALIFIED_IMPORT", Param |-> "PARAM",
   ParamList |-> "PARAM_LIST", UnaryOp |-> "UNARY_OP", Hole |-> "HOLE",
   List |-> "LIST", StmtExpr |-> "STMT_EXPR", StmtLet |-> "STMT_LET",
   StmtUse |-> "STMT_USE", UseAssignment |-> "USE_ASSIGNMENT",
   ConstantTuple |-> "CONSTANT_TUPLE", TypeNameRef |-> "TYPE_NAME_REF",
   TypeApplication |-> "TYPE_APPLICATION", TypeArgList |-> "TYPE_ARG_LIST",
   TypeArg |-> "TYPE_ARG", TupleType |-> "TUPLE_TYPE", FnType |-> "FN_TYPE",
   ParamTypeList |-> "PARAM_TYPE_LIST", NameRef |-> "NAME_REF", Case |-> "CASE",
   Clause |-> "CLAUSE", AsPattern |-> "AS_PATTERN",
   AlternativePattern |-> "ALTERNATIVE_PATTERN",
   PatternVariable |-> "PATTERN_VARIABLE", VariantRef |-> "VARIANT_REF",
   VariantRefFieldList |-> "VARIANT_REF_FIELD_LIST",
   VariantRefField |-> "VARIANT_REF_FIELD", PatternTuple |-> "PATTERN_TUPLE",
   PatternSpread |-> "PATTERN_SPREAD", PatternList |-> "PATTERN_LIST",
   PatternGuard |-> "PATTERN_GUARD"]

\* The variants of every sum declared by enums!, in the order of the match arms.
enums ==
  [ModuleStatement |-> <<"ModuleConstant", "Import", "Function", "Adt">>,
   ConstantExpr |-> <<"Literal", "ConstantTuple", "ConstantList">>,
   StatementExpr |-> <<"StmtLet", "StmtExpr", "StmtUse">>,
   Expr |-> <<"Case", "BitString", "Literal", "Block", "Variable", "Lambda",
               "BinaryOp", "Hole", "Pipe", "UnaryOp", "List", "ExprCall",
               "VariantConstructor", "FieldAccessExpr", "TupleIndex", "ExprSpread">>,
   TypeExpr |-> <<"FnType", "TupleType", "TypeNameRef", "TypeApplication">>,
   Pattern |-> <<"PatternVariable", "VariantRef", "PatternTuple", "Literal",
                  "PatternList", "Hole", "PatternSpread">>,
   TypeNameOrName |-> <<"Name", "TypeName">>]

\* The accessors declared through ast_impl!: `field: Ast`, `field[k]: Ast` and
\* `field: [Ast]`.
field_child(ast, field, of) ==
  [ast |-> ast, field |-> field, arm |-> "child", k |-> 0, of |-> of]

field_nth(ast, field, k, of) ==
  [ast |-> ast, field |-> field, arm |-> "nth", k |-> k, of |-> of]

field_children(ast, field, of) ==
  [ast |-> ast, field |-> field, arm |-> "children", k |-> 0, of |-> of]

ast_impl ==
  {field_children("Block", "expressions", "StatementExpr"),
   field_child("BinaryOp", "lhs", "Expr"), field_nth("BinaryOp", "rhs", 1, "Expr"),
   field_child("Pipe", "lhs", "Expr"), field_nth("Pipe", "rhs", 1, "Expr"),
   field_children("ConstantList", "elements", "ConstantExpr"),
   field_child("Adt", "name", "TypeName"),
   field_children("Adt", "constructors", "Variant"),
   field_child("CustomTypeAlias", "name", "TypeName"),
   field_children("CustomTypeAlias", "constructors", "Variant"),
   field_child("Variant", "name", "Name"),
   field_child("Variant", "field_list", "ConstructorFieldList"),
   field_child("VariantConstructor", "name", "NameRef"),
   field_children("ConstructorFieldList", "fields", "ConstructorField"),
   field_child("ConstructorField", "label", "Label"),
   field_child("ConstructorField", "type_", "TypeExpr"),
   field_child("Lambda", "param_list", "ParamList"),
   field_child("Lambda", "return_type", "TypeExpr"),
   field_child("Lambda", "body", "Block"), field_child("Function", "name", "Name"),
   field_child("Function", "param_list", "ParamList"),
   field_child("Function", "return_type", "TypeExpr"),
   field_child("Function", "body", "Block"), field_child("ExprCall", "func", "Expr"),
   field_child("ExprCall", "arguments", "ArgList"),
   field_children("ArgList", "args", "Arg"), field_child("Arg", "label", "Label"),
   field_child("Arg", "value", "Expr"), field_child("FieldAccessExpr", "base", "Expr"),
   field_child("FieldAccessExpr", "label", "NameRef"),
   field_child("TupleIndex", "index", "Literal"),
   field_child("TupleIndex", "base", "Expr"),
   field_child("Import", "module_path", "ModulePath"),
   field_child("Import", "as_name", "Name"),
   field_children("Import", "unqualified", "UnqualifiedImport"),
   field_children("ModulePath", "path", "Path"),
   field_child("Variable", "name", "NameRef"),
   field_child("ExprSpread", "expr", "Expr"),
   field_children("SourceFile", "statements", "ModuleStatement"),
   field_child("ModuleConstant", "name", "Name"),
   field_child("ModuleConstant", "value", "ConstantExpr"),
   field_child("ModuleConstant", "annotation", "TypeExpr"),
   field_child("UnqualifiedImport", "name", "TypeNameOrName"),
   field_nth("UnqualifiedImport", "as_name", 1, "TypeNameOrName"),
   field_child("Param", "pattern", "AsPattern"),
   field_child("Param", "label", "Label"), field_child("Param", "ty", "TypeExpr"),
   field_children("ParamList", "params", "Param"),
   field_child("UnaryOp", "arg", "Expr"), field_children("List", "elements", "Expr"),
   field_child("StmtExpr", "expr", "Expr"),
   field_child("StmtLet", "pattern", "AsPattern"),
   field_child("StmtLet", "annotation", "TypeExpr"),
   field_child("StmtLet", "body", "Expr"),
   field_children("StmtUse", "assignments", "UseAssignment"),
   field_child("StmtUse", "expr", "Expr"),
   field_child("UseAssignment", "pattern", "AsPattern"),
   field_child("UseAssignment", "annotation", "TypeExpr"),
   field_children("ConstantTuple", "elements", "ConstantExpr"),
   field_child("TypeNameRef", "module", "ModuleName"),
   field_child("TypeNameRef", "constructor_name", "TypeName"),
   field_child("TypeApplication", "type_constructor", "TypeNameRef"),
   field_child("TypeApplication", "arg_list", "TypeArgList"),
   field_children("TypeArgList", "args", "TypeArg"),
   field_child("TypeArg", "arg", "TypeExpr"),
   field_children("TupleType", "field_types", "TypeExpr"),
   field_child("FnType", "param_list", "ParamTypeList"),
   field_child("FnType", "return_", "TypeExpr"),
   field_children("ParamTypeList", "params", "TypeExpr"),
   field_children("Case", "subjects", "Expr"),
   field_children("Case", "clauses", "Clause"),
   field_children("Clause", "patterns", "AlternativePattern"),
   field_child("Clause", "body", "Expr"),
   field_child("AsPattern", "pattern", "Pattern"),
   field_child("AsPattern", "as_name", "Pattern"),
   field_children("AlternativePattern", "patterns", "AsPattern"),
   field_child("VariantRef", "module", "ModuleName"),
   field_child("VariantRef", "variant", "NameRef"),
   field_child("VariantRef", "field_list", "VariantRefFieldList"),
   field_children("VariantRefFieldList", "fields", "VariantRefField"),
   field_child("VariantRefField", "field", "AsPattern"),
   field_children("PatternTuple", "field_patterns", "AsPattern"),
   field_child("PatternSpread", "name", "Name"),
   field_children("PatternList", "elements", "AsPattern"),
   field_child("PatternGuard", "expr", "Expr")}

\* The subtree of t at the path.
RECURSIVE At(_, _)
At(t, path) == IF path = <<>> THEN t ELSE At(t.ch[Head(path)], Tail(path))

\* SyntaxNode::kind.
kind_of(n) == At(green, n).kind

\* SyntaxNode::children: the child nodes of n in order, its tokens left out.
child_nodes(n) ==
  LET ch == At(green, n).ch
      is_node(i) == ch[i].tok = 0
  IN [j \in 1..Cardinality({i \in 1..Len(ch) : is_node(i)}) |->
        Append(n, CHOOSE i \in 1..Len(ch) :
                    is_node(i) /\ Cardinality({h \in 1..i : is_node(h)}) = j)]

\* AstNode::can_cast as asts! and enums! write it.
can_cast(ast, kind) ==
  IF ast \in DOMAIN enums
  THEN \E i \in 1..Len(enums[ast]) : kind = KIND[enums[ast][i]]
  ELSE kind = KIND[ast]

\* AstNode::cast as enums! writes it, taking the first variant only.
cast_first_variant_only(ast, n) ==
  IF ast \in DOMAIN enums
  THEN IF kind_of(n) = KIND[enums[ast][1]]
       THEN Some([ast |-> ast, variant |-> enums[ast][1], syntax |-> n])
       ELSE None
  ELSE IF kind_of(n) = KIND[ast]
  THEN Some([ast |-> ast, variant |-> ast, syntax |-> n])
  ELSE None

\* AstNode::cast: for a sum the first match arm whose KIND is the node's, for
\* a struct the comparison with its KIND.
cast(ast, n) ==
  IF ast \in DOMAIN enums
  THEN LET arms == {i \in 1..Len(enums[ast]) : kind_of(n) = KIND[enums[ast][i]]}
       IN IF arms = {} THEN None
          ELSE Some([ast |-> ast, variant |-> enums[ast][Min(arms)], syntax |-> n])
  ELSE IF kind_of(n) = KIND[ast]
  THEN Some([ast |-> ast, variant |-> ast, syntax |-> n])
  ELSE None

\* AstNode::syntax.
syntax(w) == w.syntax

\* rowan's support::children: the child nodes that cast to `of`, in order.
RECURSIVE filter_map_cast(_, _)
filter_map_cast(nodes, of) ==
  IF nodes = <<>> THEN <<>>
  ELSE cast(of, Head(nodes)) \o filter_map_cast(Tail(nodes), of)

children(parent, of) == filter_map_cast(child_nodes(parent), of)

\* Iterator::nth.
nth(iter, k) == IF k < Len(iter) THEN Some(iter[k + 1]) ELSE None

\* rowan's support::child: the first child node that casts to `of`.
child(parent, of) == nth(children(parent, of), 0)

\* `children_with_tokens().find_map(NodeOrToken::into_token)`.
first_token(n) ==
  LET ch == At(green, n).ch
      toks == {i \in 1..Len(ch) : ch[i].tok # 0}
  IN IF toks = {} THEN None ELSE Some(ch[Min(toks)])

\* The structs with a hand-written token().
HasToken ==
  {"Literal", "ModuleName", "Name", "TypeName", "Label", "Target", "Path", "Hole",
   "NameRef", "PatternVariable"}

\* token() of the struct a wrapper holds: the outcome is the panic, if any, and
\* the token.  ModuleName::token unwraps the Option, the others return it.
token(w) ==
  LET t == first_token(syntax(w))
  IN [panic |-> IF w.variant = "ModuleName" /\ t = None THEN "unwrap on None"
                ELSE "none",
      value |-> t]

\* text(): the text of token(), a raw token's text being its index.
text(w) ==
  LET t == token(w)
  IN [panic |-> t.panic,
      value |-> IF t.value = None THEN None ELSE Some([text |-> t.value[1].tok])]

\* ------------------------------------------------------------------------
\* Specification SpecAst: a client of the typed layer holding a node of a
\* tree made of a root of any kind over at most MaxChildren children, each
\* a token or an empty node.  It casts the node it holds, calls an accessor
\* of the wrapper it got and takes the node of a wrapper.
\* ------------------------------------------------------------------------
Wrappers == DOMAIN KIND \cup DOMAIN enums

\* The kinds of the wrappers and three kinds the parser emits that no wrapper has.
NodeKinds == {KIND[ast] : ast \in DOMAIN KIND} \cup {"TUPLE", "MISSING", "ERROR"}

ChildKinds == {"LITERAL", "TUPLE", "NAME", "MODULE_NAME"}

\* The tree of a root of the kind over the children: "IDENT" is a token, any
\* other kind an empty node.
Tree(kind, shape) ==
  [kind |-> kind, tok |-> 0,
   ch |-> [i \in 1..Len(shape) |->
            IF shape[i] = "IDENT"
            THEN [kind |-> "IDENT", ch |-> <<>>,
                  tok |-> Cardinality({j \in 1..i : shape[j] = "IDENT"})]
            ELSE [kind |-> shape[i], ch |-> <<>>, tok |-> 0]]]

Trees ==
  {Tree(kind, shape) :
     kind \in NodeKinds, shape \in SeqsUpTo(ChildKinds \cup {"IDENT"}, MaxChildren)}

is_token(t) == t.tok # 0

InitAst ==
  /\ green \in Trees
  /\ tokens_raw = [i \in 1..Len(SelectSeq(green.ch, is_token)) |-> "IDENT"]
  /\ src_len = OneByteEach(tokens_raw)
  /\ tokens = tokens_raw
  /\ pos = 1
  /\ fuel = FUEL
  /\ errors = <<>>
  /\ events = <<>>
  /\ pc = "ast"
  /\ panic = "none"
  /\ syntax_node = <<>>
  /\ builder = GreenNodeBuilder_new
  /\ marks = NoMarks
  /\ file_set = FileSet_default
  /\ change = Change_default
  /\ db = NoInputs
  /\ returned = None

IsWrapper(r) == r # None /\ "variant" \in DOMAIN r[1]

\* The call of the accessor f on the wrapper w; of the iterator of a
\* `field: [Ast]` the client takes item k.
accessor(w, f, k) ==
  IF f.arm = "child" THEN child(syntax(w), f.of)
  ELSE IF f.arm = "nth" THEN nth(children(syntax(w), f.of), f.k)
  ELSE nth(children(syntax(w), f.of), k)

Cast ==
  /\ pc = "ast"
  /\ \E ast \in Wrappers : returned' = cast(ast, syntax_node)
  /\ UNCHANGED <<src_len, tokens_raw, tokens, pos, fuel, errors, events, pc, green,
                 panic, syntax_node, builder, marks, file_set, change, db>>

Accessor ==
  /\ pc = "ast"
  /\ IsWrapper(returned)
  /\ \E f \in ast_impl, k \in 0..MaxChildren :
       /\ f.ast = returned[1].variant
       /\ returned' = accessor(returned[1], f, k)
  /\ UNCHANGED <<src_len, tokens_raw, tokens, pos, fuel, errors, events, pc, green,
                 panic, syntax_node, builder, marks, file_set, change, db>>

\* token() or text() on the wrapper held: a panic ends the client.
Token ==
  /\ pc = "ast"
  /\ IsWrapper(returned)
  /\ returned[1].variant \in HasToken
  /\ \E get \in {"token", "text"} :
       LET t == IF get = "token" THEN token(returned[1]) ELSE text(returned[1])
       IN IF t.panic = "none"
          THEN returned' = t.value /\ pc' = pc /\ panic' = panic
          ELSE returned' = returned /\ pc' = "panicked" /\ panic' = t.panic
  /\ UNCHANGED <<src_len, tokens_raw, tokens, pos, fuel, errors, events, green,
                 syntax_node, builder, marks, file_set, change, db>>

Syntax ==
  /\ pc = "ast"
  /\ IsWrapper(returned)
  /\ syntax_node' = syntax(returned[1])
  /\ UNCHANGED <<src_len, tokens_raw, tokens, pos, fuel, errors, events, pc, green,
                 panic, returned, builder, marks, file_set, change, db>>

NextAst == Cast \/ Accessor \/ Token \/ Syntax

SpecAst == InitAst /\ [][NextAst]_vars

\* C13: for every typed wrapper, product struct or sum, and the node n the
\* client holds, cast(n) is Some exactly when can_cast(n.kind()) holds, and
\* then syntax() of the wrapper is n itself.
C13_CastIffCanCast ==
  pc = "ast" =>
    \A ast \in Wrappers :
      LET c == cast(ast, syntax_node)
      IN /\ c # None <=> can_cast(ast, kind_of(syntax_node))
         /\ c # None => syntax(c[1]) = syntax_node

\* A child node cast to the sum Expr through an arm that is not the first.
C13_Witness ==
  /\ syntax_node # <<>>
  /\ IsWrapper(returned)
  /\ returned = cast("Expr", syntax_node)
  /\ returned[1].variant = "Literal"

\* C14: no accessor of the typed layer fails on a node that lacks the
\* expected child: no call of an accessor panics, and on a node of the
\* wrapper's kind without children each accessor returns None, an iterator
\* one that yields nothing.
C14_AccessorsTotal ==
  /\ pc # "panicked"
  /\ IsWrapper(returned) /\ At(green, syntax(returned[1])).ch = <<>> =>
       /\ \A f \in ast_impl, k \in 0..MaxChildren :
            f.ast = returned[1].variant => accessor(returned[1], f, k) = None
       /\ returned[1].variant \in HasToken =>
            /\ token(returned[1]) = [panic |-> "none", value |-> None]
            /\ text(returned[1]) = [panic |-> "none", value |-> None]

\* ModuleName::token called on a MODULE_NAME node without a token has panicked.
C14_ModuleNameTokenPanics ==
  /\ pc = "panicked"
  /\ panic = "unwrap on None"
  /\ IsWrapper(returned)
  /\ returned[1].variant = "ModuleName"
  /\ kind_of(syntax(returned[1])) = "MODULE_NAME"
  /\ first_token(syntax(returned[1])) = None

\* ------------------------------------------------------------------------
\* Specification SpecOperands: a function whose body is one binary
\* expression, each operand in one of the forms of expr_unit, a prefix
\* operator or a postfix form.
\* ------------------------------------------------------------------------
OperandForms ==
  {<<"INTEGER">>, <<"STRING">>, <<"IDENT">>, <<"U_IDENT">>, <<"DISCARD_IDENT">>,
   <<"<<", ">>">>, <<"{", "INTEGER", "}">>, <<"#", "(", "INTEGER", ")">>,
   <<"[", "]">>, <<"case", "IDENT", "{", "}">>, <<"todo">>, <<"panic">>,
   <<"fn", "(", ")", "{", "}">>, <<"-", "INTEGER">>, <<"!", "IDENT">>,
   <<"IDENT", "(", ")">>, <<"IDENT", ".", "IDENT">>, <<"IDENT", ".", "INTEGER">>}

OperandOps == {"+", "==", "||", "<>"}

OperandInputs ==
  {InBody(l \o <<op>> \o r) : l \in OperandForms, op \in OperandOps, r \in OperandForms}

InitOperands == InitWith(OperandInputs)

SpecOperands == InitOperands /\ [][Next]_vars

\* The nodes of the tree from n down.
RECURSIVE Descendants(_)
Descendants(n) ==
  {n} \cup UNION {Descendants(child_nodes(n)[i]) : i \in 1..Len(child_nodes(n))}

\* The accessor `field` that ast_impl! declares on the struct.
Field(ast, field) == CHOOSE f \in ast_impl : f.ast = ast /\ f.field = field

BinaryOp_lhs(w) == accessor(w, Field("BinaryOp", "lhs"), 0)

BinaryOp_rhs(w) == accessor(w, Field("BinaryOp", "rhs"), 0)

\* The binary expressions of the tree built with both operands: a node on each
\* side of the operator.
BothOperands ==
  {n \in Descendants(<<>>) : kind_of(n) = "BINARY_OP" /\ Len(child_nodes(n)) = 2}

\* C15: for every binary expression built with both operands present,
\* whatever forms the operands have, BinaryOp::lhs() returns the operand to
\* the left of the operator and BinaryOp::rhs() the operand to its right.
C15_LhsRhs ==
  pc = "done" =>
    \A n \in BothOperands :
      LET w == cast("BinaryOp", n)[1]
      IN /\ BinaryOp_lhs(w) # None /\ syntax(BinaryOp_lhs(w)[1]) = child_nodes(n)[1]
         /\ BinaryOp_rhs(w) # None /\ syntax(BinaryOp_rhs(w)[1]) = child_nodes(n)[2]

\* `#(1) + 2`: lhs() is the right operand and rhs() is None.
C15_TupleOperandSkipped ==
  /\ pc = "done"
  /\ tokens_raw = InBody(<<"#", "(", "INTEGER", ")", "+", "INTEGER">>)
  /\ \E n \in BothOperands :
       /\ kind_of(child_nodes(n)[1]) = "TUPLE"
       /\ BinaryOp_lhs(cast("BinaryOp", n)[1]) = cast("Expr", child_nodes(n)[2])
       /\ BinaryOp_rhs(cast("BinaryOp", n)[1]) = None

\* ------------------------------------------------------------------------
\* Specification SpecParams: a named function with at most MaxParams
\* parameters, each a binding name or a discard, with or without a label
\* and with or without a type annotation.
\* ------------------------------------------------------------------------
ParamNames ==
  {<<"IDENT", "IDENT">>, <<"IDENT">>, <<"DISCARD_IDENT">>, <<"IDENT", "DISCARD_IDENT">>}

ParamTypes ==
  {<<>>, <<":", "U_IDENT">>, <<":", "IDENT", ".", "U_IDENT">>,
   <<":", "#", "(", "U_IDENT", ")">>}

ParamForms == {n \o t : n \in ParamNames, t \in ParamTypes}

\* The parameters separated by commas.
RECURSIVE Separated(_)
Separated(ps) ==
  IF ps = <<>> THEN <<>>
  ELSE IF Len(ps) = 1 THEN ps[1]
  ELSE ps[1] \o <<",">> \o Separated(Tail(ps))

ParamInputs ==
  {<<"fn", "IDENT", "(">> \o Separated(ps) \o <<")", "{", "}">> :
     ps \in SeqsUpTo(ParamForms, MaxParams)}

InitParams == InitWith(ParamInputs)

SpecParams == InitParams /\ [][Next]_vars

\* The raw tokens under the node n, in order.
Frontier(n) == leaves(At(green, n), 1)

Param_label(w) == accessor(w, Field("Param", "label"), 0)

Param_pattern(w) == accessor(w, Field("Param", "pattern"), 0)

Param_ty(w) == accessor(w, Field("Param", "ty"), 0)

\* The PARAM nodes of the tree written `label name: Type`.
LabelledTypedParams ==
  {n \in Descendants(<<>>) :
     /\ kind_of(n) = "PARAM"
     /\ LET toks == Frontier(n)
        IN /\ Len(toks) >= 4
           /\ tokens_raw[toks[1]] = "IDENT"
           /\ tokens_raw[toks[2]] = "IDENT"
           /\ tokens_raw[toks[3]] = ":"}

\* The tokens of the type of such a parameter: those after the colon, the
\* separating comma left out.
TypeTokens(toks) ==
  SubSeq(toks, 4, IF tokens_raw[toks[Len(toks)]] = "," THEN Len(toks) - 1 ELSE Len(toks))

\* The Option holds a wrapper whose node spans exactly the tokens.
Spans(option, toks) == option # None /\ Frontier(syntax(option[1])) = toks

\* C16: for a parameter of a named function written `label name: Type`,
\* Param::label() returns the label, Param::pattern() the pattern of the
\* binding name and Param::ty() the annotated type.
C16_ParamAccessors ==
  pc = "done" =>
    \A n \in LabelledTypedParams :
      LET w == cast("Param", n)[1]
          toks == Frontier(n)
      IN /\ Spans(Param_label(w), <<toks[1]>>)
         /\ Spans(Param_pattern(w), <<toks[2]>>)
         /\ Spans(Param_ty(w), TypeTokens(toks))

\* `fn bla(a b: Int) {}`: label() and ty() are right and pattern() is None,
\* the binding name being a PATTERN_VARIABLE node and not an AS_PATTERN.
C16_PatternIsNone ==
  /\ pc = "done"
  /\ tokens_raw = <<"fn", "IDENT", "(", "IDENT", "IDENT", ":", "U_IDENT", ")", "{", "}">>
  /\ \E n \in LabelledTypedParams :
       LET w == cast("Param", n)[1]
       IN /\ Spans(Param_label(w), <<4>>)
          /\ Spans(Param_ty(w), <<7>>)
          /\ Param_pattern(w) = None
          /\ kind_of(child_nodes(n)[2]) = "PATTERN_VARIABLE"

\* ------------------------------------------------------------------------
\* Specification SpecModule: a module of at most MaxDecls well-formed
\* declarations, each after no attribute, one or two.
\* ------------------------------------------------------------------------
DeclForms ==
  {<<"const", "IDENT", "=", "INTEGER">>,
   <<"pub", "const", "IDENT", "=", "INTEGER">>,
   <<"fn", "IDENT", "(", ")", "{", "}">>,
   <<"import", "IDENT", "/", "IDENT">>,
   <<"type", "U_IDENT", "{", "U_IDENT", "}">>,
   <<"type", "U_IDENT", "=", "U_IDENT">>,
   <<"opaque", "type", "U_IDENT", "{", "U_IDENT", "}">>}

TargetAttr == <<"@", "IDENT", "(", "IDENT", ")">>

ExternalAttr == <<"@", "external", "(", "IDENT", ",", "STRING", ",", "STRING", ")">>

AttrForms == {<<>>, TargetAttr, ExternalAttr \o TargetAttr}

RECURSIVE Flatten(_)
Flatten(ss) == IF ss = <<>> THEN <<>> ELSE Head(ss) \o Flatten(Tail(ss))

ModuleInputs ==
  {Flatten(ds) : ds \in SeqsUpTo({a \o d : a \in AttrForms, d \in DeclForms}, MaxDecls)}

InitModule == InitWith(ModuleInputs)

SpecModule == InitModule /\ [][Next]_vars

\* The raw tokens at which a declaration of the input starts, attributes
\* included: those that open an attribute or a declaration and follow the
\* last token of a declaration.
DeclStarts ==
  {i \in 1..Len(tokens_raw) :
     /\ tokens_raw[i] \in {"@", "pub", "opaque", "const", "fn", "import", "type"}
     /\ i = 1 \/ tokens_raw[i - 1] \in {"INTEGER", "}", "IDENT", "U_IDENT"}}

\* The attributes written before the declaration that starts at i.
AttrsAt(i) ==
  {j \in i..Len(tokens_raw) :
     tokens_raw[j] = "@" /\ \A h \in DeclStarts : h <= i \/ h > j}

\* The child node of SOURCE_FILE whose text starts at the raw token i has
\* the attributes written from i on among its children.
DeclNodeAt(i) ==
  \E k \in 1..Len(child_nodes(<<>>)) :
    LET d == child_nodes(<<>>)[k]
    IN /\ Frontier(d)[1] = i
       /\ \A j \in AttrsAt(i) :
            \E h \in 1..Len(child_nodes(d)) :
              /\ kind_of(child_nodes(d)[h]) \in {"TARGET_ATTR", "EXTERNAL_ATTR"}
              /\ Frontier(child_nodes(d)[h])[1] = j

\* A module of n well-formed declarations has n child nodes under SOURCE_FILE,
\* one starting at the first attribute of each declaration.
ModuleTree ==
  /\ kind_of(<<>>) = "SOURCE_FILE"
  /\ Len(child_nodes(<<>>)) = Cardinality(DeclStarts)
  /\ \A i \in DeclStarts : DeclNodeAt(i)

\* C17: a module made of n well-formed top-level declarations, each
\* optionally preceded by attributes, yields exactly n statement children of
\* SOURCE_FILE, and the attributes written before a declaration are children
\* of that declaration's node, whose text starts at its first attribute.
C17_ModuleTree == pc = "done" => ModuleTree

\* Two declarations, the second after two attributes.
C17_Witness ==
  /\ pc = "done"
  /\ Cardinality(DeclStarts) = 2
  /\ \E i \in DeclStarts : i > 1 /\ Cardinality(AttrsAt(i)) = 2
  /\ ModuleTree

\* ------------------------------------------------------------------------
\* Specification SpecOps: the operations expect and bump_with_error of the
\* Parser, called in any order on the parser of an input of at most
\* MaxOpsLen tokens until MaxErrors diagnostics are recorded.
\* ------------------------------------------------------------------------
OpsAlphabet == {"IDENT", "(", "WHITESPACE"}

OpsKinds == {"IDENT", "(", ")"}

OpsErrorKinds == {"ExpectedIdentifier", "ExpectedExpression"}

InitOps == InitWith(SeqsUpTo(OpsAlphabet, MaxOpsLen))

\* A step that is the call of the operation that takes P to q.
Operation(q) ==
  /\ pc = "module"
  /\ Store(q)
  /\ pc' = IF Live(q) THEN pc ELSE "panicked"
  /\ UNCHANGED <<src_len, tokens_raw, tokens, green, syntax_node, returned, builder, file_set, change, db>>

Expect ==
  /\ Len(errors) < MaxErrors
  /\ \E kind \in OpsKinds : Operation(expect(P, kind))

BumpWithError ==
  /\ Len(errors) < MaxErrors
  /\ ~eof(P)
  /\ \E kind \in OpsErrorKinds : Operation(bump_with_error(P, kind))

NextOps == NewParser \/ Expect \/ BumpWithError

SpecOps == InitOps /\ [][NextOps]_vars

\* C18: expect(kind), when the next filtered token has that kind, consumes
\* exactly one token (one Advance appended, the cursor one further) and
\* records no diagnostic; otherwise it appends exactly one ExpectToken(kind)
\* diagnostic and leaves the cursor and the event log unchanged.
C18_ExpectFrame ==
  [][\A kind \in OpsKinds :
       Operation(expect(P, kind)) =>
         IF ~eof(P) /\ tokens[pos] = kind
         THEN /\ events' = Append(events, "Advance")
              /\ pos' = pos + 1
              /\ errors' = errors
         ELSE /\ errors' = Append(errors, [range |-> pos, kind |-> "ExpectToken " \o kind])
              /\ pos' = pos
              /\ events' = events]_vars

\* expect("(") on an identifier, then expect("IDENT").
C18_Witness ==
  /\ pc = "module"
  /\ errors = <<[range |-> 1, kind |-> "ExpectToken ("]>>
  /\ events = <<"Advance">>
  /\ pos = 2
  /\ tokens[1] = "IDENT"

\* C19: bump_with_error(kind), called before the end of the input, appends
\* exactly the events Open{ERROR}, Advance, Close, moves the cursor one
\* token further and records exactly one diagnostic of the kind, whose
\* range is that of the consumed token.
C19_BumpWithErrorFrame ==
  [][\A kind \in OpsErrorKinds :
       ~eof(P) /\ Operation(bump_with_error(P, kind)) =>
         /\ events' = events \o <<"ERROR", "Advance", "Close">>
         /\ pos' = pos + 1
         /\ errors' = Append(errors, [range |-> pos, kind |-> kind])]_vars

\* bump_with_error(ExpectedExpression) on the second token of the input.
C19_Witness ==
  /\ pc = "module"
  /\ pos = 3
  /\ events = <<"Advance", "ERROR", "Advance", "Close">>
  /\ errors = <<[range |-> 2, kind |-> "ExpectedExpression"]>>

\* ------------------------------------------------------------------------
\* Specification SpecInfix: a function whose body is a chain of at most
\* MaxChain operators between identifiers, with or without one more
\* operator after the last identifier.
\* ------------------------------------------------------------------------
ChainOps == {"+", "-", "==", "|>"}

InfixInputs ==
  {InBody(Chain(ops) \o last) :
     ops \in SeqsUpTo(ChainOps, MaxChain), last \in SeqsUpTo(ChainOps, 1)}

InitInfix == InitWith(InfixInputs)

SpecInfix == InitInfix /\ [][Next]_vars

\* The operator tokens the loop of expr_bp consumed, as <<node, i>> for child
\* i of the node: in these inputs those not consumed by error recovery, which
\* closes the token it consumes in an ERROR node.
ConsumedOperators ==
  {x \in Descendants(<<>>) \X (1..Len(tokens_raw)) :
     /\ x[2] <= Len(At(green, x[1]).ch)
     /\ At(green, x[1]).ch[x[2]].tok # 0
     /\ At(green, x[1]).ch[x[2]].kind \in ChainOps
     /\ kind_of(x[1]) # "ERROR"}

\* C20: every infix operator token consumed by the loop of expr_bp is a
\* direct child of a BINARY_OP node, a PIPE node for `|>`, whose first child
\* is the left operand parsed before it; none is consumed without that node.
C20_OperatorWrapped ==
  pc = "done" =>
    \A x \in ConsumedOperators :
      /\ kind_of(x[1]) = IF At(green, x[1]).ch[x[2]].kind = "|>" THEN "PIPE" ELSE "BINARY_OP"
      /\ x[2] = 2
      /\ At(green, x[1]).ch[1].tok = 0

\* `fn f() { a + }`: the operator is consumed, no node wraps it and no
\* diagnostic is recorded.
C20_DanglingOperator ==
  /\ pc = "done"
  /\ tokens_raw = InBody(<<"IDENT", "+">>)
  /\ errors = <<>>
  /\ \E x \in ConsumedOperators : kind_of(x[1]) \notin {"BINARY_OP", "PIPE"}

\* ------------------------------------------------------------------------
\* build_tree one event at a time (parser.rs:135-203): `events.pop()` drops
\* the last Close, each iteration of `for event in events` is one step, and
\* the code after the loop is the last step.  The variable builder holds the
\* GreenNodeBuilder, the cursor pos and the index of the next event.
\* ------------------------------------------------------------------------
Pending == pc = "build" /\ builder.next < Len(events)

Replay(b) ==
  /\ IF b.panic = "none"
     THEN builder' = [b EXCEPT !.next = builder.next + 1] /\ pc' = pc /\ panic' = panic
     ELSE builder' = b /\ pc' = "panicked" /\ panic' = b.panic
  /\ UNCHANGED <<src_len, tokens_raw, tokens, pos, fuel, errors, events, green,
                 syntax_node, returned, marks, file_set, change, db>>

ReplayOpen ==
  /\ Pending
  /\ IsOpen(events[builder.next])
  /\ Replay(replay(builder, events[builder.next]))

ReplayClose ==
  /\ Pending
  /\ events[builder.next] = "Close"
  /\ Replay(replay(builder, events[builder.next]))

ReplayAdvance ==
  /\ Pending
  /\ events[builder.next] = "Advance"
  /\ Replay(replay(builder, events[builder.next]))

\* The trailing trivia, the last finish_node and builder.finish().
ReplayFinish ==
  /\ pc = "build"
  /\ builder.next = Len(events)
  /\ LET b1 == builder_finish_node(eat_token(builder, n_tokens("is_trivia", builder.pos)))
         b2 == IF b1.panic = "none" /\ Len(b1.children) # 1
               THEN [b1 EXCEPT !.panic = "assertion failed"]
               ELSE b1
     IN /\ builder' = b2
        /\ IF b2.panic = "none"
           THEN green' = b2.children[1] /\ pc' = "done" /\ panic' = panic
           ELSE green' = green /\ pc' = "panicked" /\ panic' = b2.panic
  /\ UNCHANGED <<src_len, tokens_raw, tokens, pos, fuel, errors, events,
                 syntax_node, returned, marks, file_set, change, db>>

NextReplay ==
  \/ NewParser \/ ModuleOpen \/ Statement \/ ModuleClose
  \/ ReplayOpen \/ ReplayClose \/ ReplayAdvance \/ ReplayFinish

\* Specification SpecReplay: the replay of the event log of every
\* declaration preceded by up to MaxTrivia trivia tokens: a function, a
\* constant, a constant with an infix expression, a custom type, a type
\* alias, an import, each first in the file
\* or after a constant, and a variant after the `{` of its type.
DeclFrames ==
  {<<b, d>> : b \in Before,
              d \in {FnMain,
                     <<"const", "IDENT", "=", "INTEGER">>,
                     <<"const", "IDENT", "=", "INTEGER", "+", "INTEGER">>,
                     <<"type", "U_IDENT", "{", "U_IDENT", "}">>,
                     <<"type", "U_IDENT", "=", "U_IDENT">>,
                     <<"import", "IDENT">>}}
    \cup {<<(<<"type", "U_IDENT", "{">>), (<<"U_IDENT", "}">>)>>}

ReplayInputs ==
  {f[1] \o t \o f[2] : f \in DeclFrames, t \in SeqsUpTo(TriviaKinds, MaxTrivia)}

InitReplay == InitWith(ReplayInputs)

SpecReplay == InitReplay /\ [][NextReplay]_vars

\* The steps of the replay compose to build_tree.
ReplayIsBuildTree ==
  pc = "done" /\ builder.next > 1 => green = build_tree(events).children[1]

\* The tokens of tokens_raw from index from, n of them, as leaves.
LeavesFrom(from, n) == [i \in 1..n |-> Leaf(from + i - 1)]

\* The replay of an Open that eats before trivia tokens in the enclosing
\* node, opens the node and eats inside trivia tokens in it.
OpensAround(before, inside) ==
  /\ builder'.parents =
       Append(builder.parents,
              [kind |-> events[builder.next],
               first_child |-> Len(builder.children) + before])
  /\ builder'.children = builder.children \o LeavesFrom(builder.pos, before + inside)
  /\ builder'.pos = builder.pos + before + inside

DeclKinds == {"FUNCTION", "MODULE_CONSTANT", "ADT", "TYPE_ALIAS", "VARIANT"}

\* C21: the replay of the Open of a declaration node (FUNCTION,
\* MODULE_CONSTANT, ADT, TYPE_ALIAS, VARIANT) emits the run of whitespace at
\* the cursor into the enclosing node, opens the node, and emits the run of
\* statement-doc trivia that follows into the node.
C21_DeclDocsInside ==
  [][ReplayOpen /\ events[builder.next] \in DeclKinds
       => OpensAround(n_tokens("is_whitespace", builder.pos),
                      n_tokens("is_stmt_doc",
                               builder.pos + n_tokens("is_whitespace", builder.pos)))]_vars

\* A type alias with a doc comment right before it has been built and the
\* doc comment is not a token of the TYPE_ALIAS node.
C21_AliasDocOutside ==
  /\ pc = "done"
  /\ builder.next > 1
  /\ \E i \in 1..Len(tokens_raw) - 1 :
       /\ tokens_raw[i] = "DOC_COMMENT"
       /\ tokens_raw[i + 1] = "type"
       /\ \E x \in Parents(green, 0) : x[1] = i + 1 /\ x[2] = "TYPE_ALIAS"
       /\ \E x \in Parents(green, 0) : x[1] = i /\ x[2] = "SOURCE_FILE"

\* The replay of the Open of the file root.
ReplayRoot == ReplayOpen /\ events[builder.next] = "SOURCE_FILE"

\* C22 as stated: the replay of the Open of the file root emits the leading
\* module-doc trivia before it opens the root node.
C22_ModuleDocBeforeRoot ==
  [][ReplayRoot => OpensAround(n_tokens("is_module_doc", builder.pos), 0)]_vars

\* C22: the replay of the Open of the file root opens the root node and then
\* emits the leading module-doc trivia into it, and in the finished tree
\* every token of that leading run is a child of the root itself, above the
\* node of the first declaration.
C22_ModuleDocInsideRoot ==
  /\ [][ReplayRoot => OpensAround(0, n_tokens("is_module_doc", builder.pos))]_vars
  /\ [](pc = "done" /\ builder.next > 1
         => \A i \in 1..n_tokens("is_module_doc", 1) :
              <<i, "SOURCE_FILE", 0>> \in Parents(green, 0))

\* The root has been opened over a file that starts with a module comment:
\* the comment is the first child of the open root.
C22_Witness ==
  /\ pc = "build"
  /\ builder.next = 2
  /\ tokens_raw[1] = "MODULE_COMMENT"
  /\ builder.parents = <<[kind |-> "SOURCE_FILE", first_child |-> 0]>>
  /\ builder.children[1] = Leaf(1)

\* The index in tokens_raw of the k-th token that is not trivia.
Significant(k) ==
  CHOOSE i \in 1..Len(tokens_raw) :
    /\ ~is_trivia(tokens_raw[i])
    /\ Cardinality({j \in 1..i : ~is_trivia(tokens_raw[j])}) = k

\* The Open that is innermost and not yet closed after the first i events.
InnermostOpen(evs, i) ==
  CHOOSE j \in 1..i :
    /\ IsOpen(evs[j])
    /\ \A l \in j..i : Depth(evs, l) >= Depth(evs, j)
    /\ \A h \in (j + 1)..i :
         ~(IsOpen(evs[h]) /\ \A l \in h..i : Depth(evs, l) >= Depth(evs, h))

\* The index of the k-th Advance of the event log.
AdvanceAt(evs, k) ==
  CHOOSE j \in 1..Len(evs) : evs[j] = "Advance" /\ Advances(evs, j) = k

\* The replay of the k-th Advance emits the trivia at the cursor and then
\* the k-th significant token, into the open node, which is the node of the
\* innermost Open of the log at that event.
AdvanceEmitsKth ==
  LET k == Advances(events, builder.next)
      n == n_tokens("is_trivia", builder.pos)
      top == builder.parents[Len(builder.parents)]
  IN /\ builder.pos + n = Significant(k)
     /\ tokens[k] = tokens_raw[Significant(k)]
     /\ builder'.children = builder.children \o LeavesFrom(builder.pos, n + 1)
     /\ builder'.pos = builder.pos + n + 1
     /\ builder'.parents = builder.parents
     /\ Len(builder.parents) = Depth(events, builder.next)
     /\ top.kind = events[InnermostOpen(events, builder.next)]

\* The replay of a Close closes the open node and emits no token.
CloseEmitsNothing ==
  /\ builder'.pos = builder.pos
  /\ builder'.parents = SubSeq(builder.parents, 1, Len(builder.parents) - 1)
  /\ Len(builder'.children) = builder.parents[Len(builder.parents)].first_child + 1

AliasTypes ==
  {<<"U_IDENT">>,
   <<"IDENT">>,
   <<"IDENT", ".", "U_IDENT">>,
   <<"U_IDENT", "(", "IDENT", ")">>,
   <<"U_IDENT", "(", "U_IDENT", ",", "IDENT", ")">>,
   <<"fn", "(", "IDENT", ")", "->", "U_IDENT">>,
   <<"#", "(", "U_IDENT", ",", "IDENT", ")">>}

AliasBodies == {<<"=">> \o t : t \in AliasTypes}

AdtBodies == {<<"{", "U_IDENT", "}">>, <<"{", "}">>}

TypeDecl(v, o, g, body) == v \o o \o <<"type", "U_IDENT">> \o g \o body

Visibilities == {<<>>, <<"pub">>}

Opacities == {<<>>, <<"opaque">>}

Generics == {<<>>, <<"(", "IDENT", ")">>}

Following == {<<>>, FnMain, <<"const", "IDENT", "=", "INTEGER">>}

AliasInputs ==
  {TypeDecl(v, o, g, body) \o f :
     v \in Visibilities, o \in Opacities, g \in Generics,
     body \in AliasBodies \cup AdtBodies, f \in Following}

InitAlias == InitWith(AliasInputs)

SpecAlias == InitAlias /\ [][Next]_vars

\* The diagnostics of kind OpaqueAlias recorded by the parse.
OpaqueAliasErrors == {i \in 1..Len(errors) : errors[i].kind = "OpaqueAlias"}

\* The nodes of the tree of the given kind.
NodesOf(kind) == {n \in Descendants(<<>>) : kind_of(n) = kind}

\* The first child of the root is a node of the given kind whose tokens are
\* the first len tokens of the file.
FirstDeclIs(kind, len) ==
  /\ kind_of(<<1>>) = kind
  /\ Frontier(<<1>>) = [i \in 1..len |-> i]

C25_MarksValid == marks.finish_ok /\ marks.before_ok /\ marks.shift_ok

\* ------------------------------------------------------------------------
\* Specification SpecMarks: the parse of at most MaxMarksLen tokens of
\* MarksAlphabet, alone or after `"a" <>` or `a .`, as a pattern (after
\* `case x {`), as an expression (in a function body) and as a type (after
\* `type T =`): the rules that call start_node_before.
\* ------------------------------------------------------------------------
MaxMarksLen == 3

MarksAlphabet == {"IDENT", "U_IDENT", ".", "(", "STRING", "<>", "as", "+"}

MarksContexts == {InCase, InFunction, <<"type", "U_IDENT", "=">>}

MarksStarts == {<<>>, <<"STRING", "<>">>, <<"IDENT", ".">>}

MarksInputs ==
  {c \o b \o s : c \in MarksContexts, b \in MarksStarts,
                 s \in SeqsUpTo(MarksAlphabet, MaxMarksLen)}

InitMarks == InitWith(MarksInputs)

SpecMarks == InitMarks /\ [][Next]_vars

\* The pattern `"a" <> b as c` has been parsed: PATTERN_CONCAT was opened
\* before the closed LITERAL and AS_PATTERN before the closed PATTERN_CONCAT,
\* while the marks of the enclosing nodes were outstanding.
C25_Witness ==
  /\ pc = "statements"
  /\ tokens_raw = InCase \o <<"STRING", "<>", "IDENT", "as">>
  /\ \E i \in 1..Len(events) - 2 :
       /\ events[i] = "AS_PATTERN"
       /\ events[i + 1] = "PATTERN_CONCAT"
       /\ events[i + 2] = "LITERAL"
  /\ marks.open = {1}
  /\ C25_MarksValid

\* ------------------------------------------------------------------------
\* Specification SpecAssert: the parse of at most MaxAssertLen tokens of
\* AssertAlphabet, the tokens on which the rules dispatch, at the top level,
\* in a function body, in a case expression, after `let`, in a parameter
\* list, in the braces of an import and in the braces of a custom type: the
\* input ends, or goes wrong, right behind each entry assertion and bump.
\* ------------------------------------------------------------------------
MaxAssertLen == 2

AssertAlphabet ==
  {"@", "external", "IDENT", "U_IDENT", "DISCARD_IDENT", "fn", "import", "type",
   "const", "(", "{", "[", "<<", "#", ".", "as", "let", "use", "case", "INTEGER"}

AssertContexts ==
  {<<>>, InFunction, InCase, InFunction \o <<"let">>, <<"fn", "IDENT", "(">>,
   <<"import", "IDENT", ".", "{">>, <<"type", "U_IDENT", "{">>}

AssertInputs ==
  {c \o s : c \in AssertContexts, s \in SeqsUpTo(AssertAlphabet, MaxAssertLen)}

InitAssert == InitWith(AssertInputs)

SpecAssert == InitAssert /\ [][Next]_vars

\* C26: no step of the parser ends in a failed assertion: neither the
\* assertion of bump that the input has not ended nor the entry assertion
\* of a grammar rule fails.
C26_NoAssertionFails ==
  [][ModuleOpen \/ Statement \/ ModuleClose => panic' # "assertion failed"]_vars

\* `import a.{ B as` has been parsed to its end: as_name was entered at
\* U_IDENT, bumped the last but one token, and the parse went on to the end
\* of the input without a panic.
C26_Witness ==
  /\ pc = "done"
  /\ tokens_raw = <<"import", "IDENT", ".", "{", "U_IDENT", "as">>
  /\ panic = "none"
  /\ \E i \in 1..Len(events) : events[i] = "UNQUALIFIED_IMPORT"

\* The kind of the node expr_bp builds for the infix operator op.
InfixKind(op) == IF op = "|>" THEN "PIPE" ELSE "BINARY_OP"

\* C27: in `a op1 b op2 c` with op1 and op2 of equal binding power the node
\* of op2 is the whole expression, its left operand is the node of op1 over
\* `a op1 b` and its right operand is c alone.
C27_LeftAssociative ==
  \A op1, op2 \in InfixOps :
    /\ infix_bp(op1) = infix_bp(op2)
    /\ pc = "done"
    /\ tokens_raw = InBody(Chain(<<op1, op2>>))
    => /\ IsBinary(BodyExpr)
       /\ BodyExpr.kind = InfixKind(op2)
       /\ BodyExpr.ch[2].tok = FirstOperand + 3
       /\ IsBinary(BodyExpr.ch[1])
       /\ BodyExpr.ch[1].kind = InfixKind(op1)
       /\ BodyExpr.ch[1].ch[2].tok = FirstOperand + 1
       /\ leaves(BodyExpr.ch[1], 1) = [i \in 1..3 |-> FirstOperand - 1 + i]
       /\ leaves(BodyExpr.ch[3], 1) = <<FirstOperand + 4>>

\* `a * b / c` has been parsed: the node of `/` has the node of `*` as its
\* first child.
C27_Witness ==
  /\ pc = "done"
  /\ tokens_raw = InBody(Chain(<<"*", "/">>))
  /\ IsBinary(BodyExpr)
  /\ BodyExpr.ch[2].kind = "/"
  /\ IsBinary(BodyExpr.ch[1])
  /\ BodyExpr.ch[1].ch[2].kind = "*"

\* ------------------------------------------------------------------------
\* BinaryOp::op_details, op_token and op_kind (ast.rs:280-313).  A
\* SyntaxToken is the index of the token in tokens_raw.
\* ------------------------------------------------------------------------
\* The `match tok.kind()` of op_details: the BinaryOpKind, None for `_`.
op_details_match(k) ==
  CASE k = "+" -> Some("IntAdd")
    [] k = "-" -> Some("IntSub")
    [] k = "*" -> Some("IntMul")
    [] k = "/" -> Some("IntDiv")
    [] k = "%" -> Some("IntMod")
    [] k = ">" -> Some("IntGT")
    [] k = "<" -> Some("IntLT")
    [] k = ">=" -> Some("IntGTE")
    [] k = "<=" -> Some("IntLTE")
    [] k = "+." -> Some("FloatAdd")
    [] k = "-." -> Some("FloatSub")
    [] k = "*." -> Some("FloatMul")
    [] k = "/." -> Some("FloatDiv")
    [] k = ">." -> Some("FloatGT")
    [] k = "<." -> Some("FloatLT")
    [] k = ">=." -> Some("FloatGTE")
    [] k = "<=." -> Some("FloatGTE")
    [] k = "==" -> Some("Eq")
    [] OTHER -> None

\* children_with_tokens().find_map(..): the first child that is a token on
\* which the match answers, with that answer.
BinaryOp_op_details(w) ==
  LET ch == At(green, syntax(w)).ch
      found == {i \in 1..Len(ch) : ch[i].tok # 0 /\ op_details_match(ch[i].kind) # None}
  IN IF found = {} THEN None
     ELSE Some(<<ch[Min(found)].tok, op_details_match(ch[Min(found)].kind)[1]>>)

BinaryOp_op_token(w) ==
  IF BinaryOp_op_details(w) = None THEN None ELSE Some(BinaryOp_op_details(w)[1][1])

BinaryOp_op_kind(w) ==
  IF BinaryOp_op_details(w) = None THEN None ELSE Some(BinaryOp_op_details(w)[1][2])

\* A client calls op_details on a BINARY_OP node of the finished tree.
OpDetails ==
  /\ pc = "done"
  /\ \E n \in NodesOf("BINARY_OP") :
       /\ syntax_node' = n
       /\ returned' = BinaryOp_op_details(cast("BinaryOp", n)[1])
  /\ UNCHANGED <<src_len, tokens_raw, tokens, pos, fuel, errors, events, pc, green,
                 panic, builder, marks, file_set, change, db>>

NextOpKind == Next \/ OpDetails

\* Specification SpecOpKind: the expressions of SpecExpr, parsed, and then
\* op_details on the BINARY_OP nodes of the tree.
SpecOpKind == InitExpr /\ [][NextOpKind]_vars

\* The arithmetic and comparison operators that have a BinaryOpKind.
KindedOps ==
  {"+", "-", "*", "/", "%", ">", "<", ">=", "<=",
   "+.", "-.", "*.", "/.", ">.", "<.", ">=.", "<=.", "=="}

\* The BINARY_OP nodes of the tree whose operator, the token between the
\* two operands, is one of KindedOps.
KindedBinaryOps ==
  {n \in NodesOf("BINARY_OP") :
     /\ Len(At(green, n).ch) = 3
     /\ At(green, n).ch[2].kind \in KindedOps}

\* The operator token of a node of KindedBinaryOps.
OperatorOf(n) == At(green, n).ch[2]

\* C28: on a BINARY_OP node whose operator is an arithmetic or comparison
\* operator, op_token returns the operator token and op_kind returns a kind;
\* nodes with different operators get different kinds, `<=.` gets FloatLTE
\* and `>=.` gets FloatGTE.
C28_OpKindOfSameOperator ==
  pc = "done" =>
    \A n \in KindedBinaryOps :
      LET w == cast("BinaryOp", n)[1]
      IN /\ BinaryOp_op_token(w) = Some(OperatorOf(n).tok)
         /\ BinaryOp_op_kind(w) # None
         /\ OperatorOf(n).kind = "<=." => BinaryOp_op_kind(w) = Some("FloatLTE")
         /\ OperatorOf(n).kind = ">=." => BinaryOp_op_kind(w) = Some("FloatGTE")
         /\ \A n2 \in KindedBinaryOps :
              OperatorOf(n).kind # OperatorOf(n2).kind
                => BinaryOp_op_kind(w) # BinaryOp_op_kind(cast("BinaryOp", n2)[1])

\* `a <=. b` has been parsed and op_kind of its BINARY_OP node returns
\* FloatGTE.
C28_LessEqualIsGreaterEqual ==
  /\ pc = "done"
  /\ tokens_raw = InBody(Chain(<<"<=.">>))
  /\ syntax_node \in KindedBinaryOps
  /\ OperatorOf(syntax_node).kind = "<=."
  /\ returned = Some(<<OperatorOf(syntax_node).tok, "FloatGTE">>)

\* ------------------------------------------------------------------------
\* FileSet (crates/ide/src/base.rs:129-159).  files is the HashMap from
\* path to file, paths the HashMap from file to path, each the set of its
\* <<key, value>> entries.
\* ------------------------------------------------------------------------
MaxFiles == 2

MaxPaths == 2

FileIds == 1..MaxFiles

VfsPaths == 1..MaxPaths

\* HashMap::insert: the entry of the key replaces the one the map had.
HashMap_insert(map, key, value) == {e \in map : e[1] # key} \cup {<<key, value>>}

\* HashMap::remove.
HashMap_remove(map, key) == {e \in map : e[1] # key}

\* HashMap::get.
HashMap_get(map, key) ==
  IF \E e \in map : e[1] = key THEN Some((CHOOSE e \in map : e[1] = key)[2]) ELSE None

FileSet_insert(fs, file, path) ==
  [files |-> HashMap_insert(fs.files, path, file),
   paths |-> HashMap_insert(fs.paths, file, path)]

FileSet_remove_file(fs, file) ==
  IF HashMap_get(fs.paths, file) = None THEN fs
  ELSE [files |-> HashMap_remove(fs.files, HashMap_get(fs.paths, file)[1]),
        paths |-> HashMap_remove(fs.paths, file)]

file_for_path(fs, path) == HashMap_get(fs.files, path)

parser_vars ==
  <<src_len, tokens_raw, tokens, pos, fuel, errors, events, pc, green, panic,
    syntax_node, builder, marks>>

Insert ==
  /\ \E file \in FileIds, path \in VfsPaths :
       file_set' = FileSet_insert(file_set, file, path)
  /\ UNCHANGED <<parser_vars, returned, change, db>>

RemoveFile ==
  /\ \E file \in FileIds : file_set' = FileSet_remove_file(file_set, file)
  /\ UNCHANGED <<parser_vars, returned, change, db>>

FileForPath ==
  /\ \E path \in VfsPaths : returned' = file_for_path(file_set, path)
  /\ UNCHANGED <<parser_vars, file_set, change, db>>

NextFileSet == Insert \/ RemoveFile \/ FileForPath

\* Specification SpecFileSet: every sequence of insert, remove_file and
\* file_for_path on a FileSet over MaxFiles files and MaxPaths paths.
SpecFileSet == InitWith({<<>>}) /\ [][NextFileSet]_vars

\* C29: the two maps of the FileSet are inverses of each other:
\* file_for_path(p) is Some(f) exactly when paths records p for f.
C29_MutualInverses ==
  \A file \in FileIds, path \in VfsPaths :
    file_for_path(file_set, path) = Some(file) <=> <<file, path>> \in file_set.paths

\* After insert(f, p) and insert(f, q) the file is still found under p,
\* which is no longer its path.
C29_StalePath ==
  \E file \in FileIds, p, q \in VfsPaths :
    /\ p # q
    /\ file_set.paths = {<<file, q>>}
    /\ file_set.files = {<<p, file>>, <<q, file>>}
    /\ returned = Some(file)

\* ------------------------------------------------------------------------
\* Change and its application to the SourceDatabase
\* (crates/ide/src/base.rs:332-378).  An input of the database is the value
\* last set; a SourceRoot is the set of the files of its FileSet.
\* ------------------------------------------------------------------------
MaxRoots == 1

MaxFileChanges == 1

PackageGraphs == {"graph a", "graph b"}

ModuleMaps == {"map a", "map b"}

SourceRoots == SUBSET FileIds

Contents == {"", "text"}

\* Change::is_empty.
is_empty(c) == c.roots = None /\ c.file_changes = <<>>

set_package_graph(c, graph) == [c EXCEPT !.package_graph = Some(graph)]

set_roots_and_map(c, roots, module_map) ==
  [c EXCEPT !.roots = Some(roots), !.module_map = Some(module_map)]

change_file(c, file_id, content) ==
  [c EXCEPT !.file_changes = Append(@, <<file_id, content>>)]

\* `for (sid, root) in (0u32..).map(SourceRootId).zip(roots)` from root i on.
RECURSIVE apply_roots(_, _, _)
apply_roots(d, roots, i) ==
  IF i > Len(roots) THEN d
  ELSE apply_roots(
         [d EXCEPT !.file_source_root =
                     {e \in @ : e[1] \notin roots[i]} \cup {<<fid, i - 1>> : fid \in roots[i]},
                   !.source_root = HashMap_insert(@, i - 1, roots[i])],
         roots, i + 1)

\* `for (file_id, content) in self.file_changes` from change i on.
RECURSIVE apply_file_changes(_, _, _)
apply_file_changes(d, file_changes, i) ==
  IF i > Len(file_changes) THEN d
  ELSE apply_file_changes(
         [d EXCEPT !.file_content =
                     HashMap_insert(@, file_changes[i][1], file_changes[i][2])],
         file_changes, i + 1)

\* Change::apply.
apply(c, d) ==
  LET d1 == IF c.package_graph # None
            THEN [d EXCEPT !.package_graph = c.package_graph] ELSE d
      d2 == IF c.roots # None THEN apply_roots(d1, c.roots[1], 1) ELSE d1
      d3 == IF c.module_map # None THEN [d2 EXCEPT !.module_map = c.module_map] ELSE d2
  IN apply_file_changes(d3, c.file_changes, 1)

SetPackageGraph ==
  /\ \E graph \in PackageGraphs : change' = set_package_graph(change, graph)
  /\ UNCHANGED <<parser_vars, returned, file_set, db>>

SetRootsAndMap ==
  /\ \E roots \in SeqsUpTo(SourceRoots, MaxRoots), module_map \in ModuleMaps :
       change' = set_roots_and_map(change, roots, module_map)
  /\ UNCHANGED <<parser_vars, returned, file_set, db>>

ChangeFile ==
  /\ Len(change.file_changes) < MaxFileChanges
  /\ \E file_id \in FileIds, content \in Contents :
       change' = change_file(change, file_id, content)
  /\ UNCHANGED <<parser_vars, returned, file_set, db>>

IsEmpty ==
  /\ returned' = Some(is_empty(change))
  /\ UNCHANGED <<parser_vars, file_set, change, db>>

\* The host applies the change it has built and starts a new one.
Apply ==
  /\ db' = apply(change, db)
  /\ change' = Change_default
  /\ returned' = None
  /\ UNCHANGED <<parser_vars, file_set>>

NextChange == SetPackageGraph \/ SetRootsAndMap \/ ChangeFile \/ IsEmpty \/ Apply

\* Specification SpecChange: every sequence of the setters of a Change,
\* is_empty and apply, over two package graphs, two module maps, root lists
\* of at most MaxRoots roots and at most MaxFileChanges file changes.
SpecChange == InitWith({<<>>}) /\ [][NextChange]_vars

\* Something has been set in the change.
SomethingSet(c) ==
  \/ c.package_graph # None
  \/ c.module_map # None
  \/ c.roots # None
  \/ c.file_changes # <<>>

\* C30: a change that is_empty reports empty leaves the database as it is
\* when applied, and no change in which a package graph, a module map, a
\* root list or a file change has been set is reported empty.
C30_EmptyChangesNothing ==
  /\ is_empty(change) => apply(change, db) = db
  /\ SomethingSet(change) => ~is_empty(change)

\* is_empty has returned true for a change that holds a package graph other
\* than the one of the database.
C30_PackageGraphOnly ==
  /\ returned = Some(TRUE)
  /\ change.package_graph # None
  /\ change.package_graph # db.package_graph
  /\ apply(change, db) # db

====
